---- MODULE Spec2Model ----
(***************************************************************************)
(* Model of tanjun/dependencies/limiters.py: the in-memory cooldown        *)
(* manager and the in-memory concurrency limiter, the bucket resources     *)
(* they share and the resolution of a context to a bucket key.             *)
(*                                                                         *)
(* Conventions.  None is 0: snowflake ids are positive, and a returned     *)
(* wait is always > 0 (must_wait_for only returns a positive time_left).   *)
(* time.monotonic() is the variable now, in whole ticks; every handler     *)
(* runs at one instant and Tick lets time pass between handlers.           *)
(* An optional object is a sequence of length 0 or 1.                      *)
(***************************************************************************)
EXTENDS FiniteSets, Integers, Sequences, TLC

VARIABLES
    now,                 \* time.monotonic()
    parent_id,           \* parent_id of the cached guild channel (gateway cache, may change)
    manager,             \* which object this run exercises: the two managers share no state
    ids,                 \* the bucket ids the callers of this run use
    targets,             \* the bucket ids set_bucket and disable_bucket are called with
    callers,             \* the contexts the callers of the limiter of this run pass
    cd_buckets,          \* InMemoryCooldownManager._buckets
    cd_template,         \* InMemoryCooldownManager._default_bucket_template
    cd_gc_task,          \* InMemoryCooldownManager._gc_task is not None
    cc_buckets,          \* InMemoryConcurrencyLimiter._buckets (states by object id)
    cc_template,         \* InMemoryConcurrencyLimiter._default_bucket_template
    cc_gc_task,          \* InMemoryConcurrencyLimiter._gc_task is not None
    acquiring_ctxs,      \* InMemoryConcurrencyLimiter._acquiring_ctxs: <<bucket_id, ctx>> -> object id
    heap,                \* the live _ConcurrencyLimit objects: object id -> state
    limit_obj,           \* a _ConcurrencyLimit used on its own
    res_obj,             \* a bucket resource of _ConcurrencyLimit states used on its own
    pending,             \* the calls suspended in key resolution: task -> call
    cd_accepted,         \* history: per key, the window open and the checks accepted in it
    unswept,             \* a manager given the same calls at the same times and never swept
    cd_window,           \* history: the first window of one key, followed from the key's creation
    cd_uses,             \* history: the windows and accepted uses of one key (when on)
    held,                \* history: <<bucket_id, ctx>> acquired with success and not released since
    disabled,            \* history: bucket ids disabled and not configured since
    configured,          \* history: set_bucket or disable_bucket has installed a bucket
    last                 \* the most recent call and what it returned

env == <<now, parent_id, manager, ids, targets, callers>>
cd_vars == <<cd_buckets, cd_template, cd_gc_task, cd_window, cd_uses>>
cc_vars == <<cc_buckets, cc_template, cc_gc_task, acquiring_ctxs, heap, held>>
vars == <<env, cd_vars, cc_vars, limit_obj, res_obj, pending, cd_accepted, unswept,
          disabled, configured, last>>

-----------------------------------------------------------------------------
(* Bounds of the model *)

MaxTime == 2
MaxLimit == 2
MaxStates == 3

-----------------------------------------------------------------------------
(* Values *)

None == 0
Raised == -1

USER == 0
MEMBER == 1
CHANNEL == 2
PARENT_CHANNEL == 3
TOP_ROLE == 5
GUILD == 6
GLOBAL == 7
BucketResource == {USER, MEMBER, CHANNEL, PARENT_CHANNEL, TOP_ROLE, GUILD, GLOBAL}

EmptyMap == <<>>

Put(m, k, v) == [x \in DOMAIN m \cup {k} |-> IF x = k THEN v ELSE m[x]]
Drop(m, ks) == [x \in DOMAIN m \ ks |-> m[x]]

-----------------------------------------------------------------------------
(* Key resolution: _get_ctx_target *)

\* the role that sorted(roles, key=position, reverse=True) puts first:
\* the highest position, the earliest in iteration order among equals
TopRole(roles) ==
    LET best == CHOOSE i \in 1..Len(roles) :
                    /\ \A j \in 1..Len(roles) : roles[j].position <= roles[i].position
                    /\ \A j \in 1..(i - 1) : roles[j].position < roles[i].position
    IN roles[best]

\* _try_get_role over every held role id: the roles found, or <<"miss">> when
\* a lookup raised CacheMissError (EntryNotFound is swallowed and filtered)
RolesFromCache(role_cache) ==
    IF \E i \in 1..Len(role_cache) : role_cache[i].tag = "miss"
    THEN [missed |-> TRUE, roles |-> <<>>]
    ELSE [missed |-> FALSE,
          roles |-> SelectSeq(role_cache, LAMBDA r : r.tag = "hit")]

\* a slip: a miss of the injected channel cache is an error
_get_ctx_target_miss_raises(ctx, type_) ==
    IF type_ = USER THEN ctx.author_id
    ELSE IF type_ = CHANNEL THEN ctx.channel_id
    ELSE IF type_ = PARENT_CHANNEL THEN
        IF ctx.guild_id = None THEN ctx.channel_id
        ELSE IF ctx.cached_channel # <<>> THEN
            (IF ctx.cached_channel[1] # None THEN ctx.cached_channel[1] ELSE ctx.guild_id)
        ELSE IF ctx.channel_cache # <<>> /\ ctx.channel_cache[1].found THEN
            (IF ctx.channel_cache[1].parent_id # None
             THEN ctx.channel_cache[1].parent_id ELSE ctx.guild_id)
        ELSE IF ctx.channel_cache # <<>> THEN Raised
        ELSE (IF ctx.fetch_channel # None THEN ctx.fetch_channel ELSE ctx.guild_id)
    ELSE IF type_ = GUILD THEN
        (IF ctx.guild_id # None THEN ctx.guild_id ELSE ctx.channel_id)
    ELSE Raised

_get_ctx_target(ctx, type_) ==
    IF type_ = USER THEN ctx.author_id
    ELSE IF type_ = CHANNEL THEN ctx.channel_id
    ELSE IF type_ = PARENT_CHANNEL THEN
        IF ctx.guild_id = None THEN ctx.channel_id
        ELSE IF ctx.cached_channel # <<>> THEN
            (IF ctx.cached_channel[1] # None THEN ctx.cached_channel[1] ELSE ctx.guild_id)
        ELSE IF ctx.channel_cache # <<>> /\ ctx.channel_cache[1].found THEN
            (IF ctx.channel_cache[1].parent_id # None
             THEN ctx.channel_cache[1].parent_id ELSE ctx.guild_id)
        ELSE (IF ctx.fetch_channel # None THEN ctx.fetch_channel ELSE ctx.guild_id)
    ELSE IF type_ = TOP_ROLE THEN
        IF ctx.guild_id = None THEN ctx.channel_id
        ELSE IF ctx.member = <<>> \/ Len(ctx.member[1].role_ids) <= 1 THEN ctx.guild_id
        ELSE LET m == ctx.member[1]
                 try_rest0 == m.get_roles = <<>>
                 cached == IF try_rest0 /\ m.role_cache # <<>>
                           THEN RolesFromCache(m.role_cache[1])
                           ELSE [missed |-> TRUE, roles |-> <<>>]
                 roles == IF ~try_rest0 THEN m.get_roles
                          ELSE IF ~cached.missed THEN cached.roles
                          ELSE m.fetch_roles
             IN IF roles = <<>> THEN Raised ELSE TopRole(roles).id
    ELSE IF type_ = GUILD THEN
        (IF ctx.guild_id # None THEN ctx.guild_id ELSE ctx.channel_id)
    ELSE Raised

\* the lookups _get_ctx_target makes on its collaborators, in order
\* (role_cache.get stands for the pass over the held role ids)
_get_ctx_target_calls(ctx, type_) ==
    IF type_ = PARENT_CHANNEL THEN
        IF ctx.guild_id = None THEN <<>>
        ELSE IF ctx.cached_channel # <<>> THEN <<"get_channel">>
        ELSE IF ctx.channel_cache # <<>> /\ ctx.channel_cache[1].found
        THEN <<"get_channel", "channel_cache.get">>
        ELSE IF ctx.channel_cache # <<>>
        THEN <<"get_channel", "channel_cache.get", "fetch_channel">>
        ELSE <<"get_channel", "fetch_channel">>
    ELSE IF type_ = TOP_ROLE THEN
        IF ctx.guild_id = None THEN <<>>
        ELSE IF ctx.member = <<>> \/ Len(ctx.member[1].role_ids) <= 1 THEN <<>>
        ELSE LET m == ctx.member[1]
                 try_rest0 == m.get_roles = <<>>
                 cached == try_rest0 /\ m.role_cache # <<>>
                 try_rest == try_rest0 /\ (~cached \/ RolesFromCache(m.role_cache[1]).missed)
             IN <<"get_roles">>
                \o (IF cached THEN <<"role_cache.get">> ELSE <<>>)
                \o (IF try_rest THEN <<"fetch_roles">> ELSE <<>>)
    ELSE <<>>

-----------------------------------------------------------------------------
(* Contexts used by the managers' specifications *)

ContextIds == {1, 2, 3}
\* the cooldown manager never looks at a context's identity: two contexts
\* with different keys are all its callers need
CooldownContextIds == {1, 2}

NoMember == <<>>
Role(id, position) == [id |-> id, position |-> position]
Member(role_ids, roles) ==
    <<[role_ids |-> role_ids, get_roles |-> roles, role_cache |-> <<>>, fetch_roles |-> roles]>>

\* 1: a command of user 2 in a DM; 2 and 3: two commands of user 1 (who holds
\* role 40) in channel 11 of guild 20.  Under every scope 2 and 3 resolve to
\* one key and 1 to another; under GLOBAL all three share the one state.
\* 4: a third command of user 1 there, for the runs that need three contexts
\* of one key.
ContextTable ==
    (1 :> [author_id |-> 2, guild_id |-> None, channel_id |-> 10, member |-> NoMember])
 @@ (2 :> [author_id |-> 1, guild_id |-> 20, channel_id |-> 11,
           member |-> Member(<<20, 40>>, <<Role(20, 0), Role(40, 1)>>)])
 @@ (3 :> [author_id |-> 1, guild_id |-> 20, channel_id |-> 11,
           member |-> Member(<<20, 40>>, <<Role(20, 0), Role(40, 1)>>)])
 @@ (4 :> [author_id |-> 1, guild_id |-> 20, channel_id |-> 11,
           member |-> Member(<<20, 40>>, <<Role(20, 0), Role(40, 1)>>)])

\* the context object c as it reads now: the cached channel carries parent_id
Context(c) ==
    [author_id |-> ContextTable[c].author_id,
     guild_id |-> ContextTable[c].guild_id,
     channel_id |-> ContextTable[c].channel_id,
     member |-> ContextTable[c].member,
     cached_channel |-> IF ContextTable[c].guild_id = None THEN <<>> ELSE <<parent_id>>,
     channel_cache |-> <<>>,
     fetch_channel |-> parent_id]

-----------------------------------------------------------------------------
(* _Cooldown *)

Cooldown(limit, reset_after) ==
    [counter |-> 0, limit |-> limit, reset_after |-> reset_after,
     resets_at |-> now + reset_after]

\* a slip: a state below its limit counts as expired, too
Cooldown_has_expired_idle(self) == self.counter < self.limit \/ now >= self.resets_at

Cooldown_has_expired(self) == now >= self.resets_at

\* a slip: the window is taken as elapsed only once resets_at is behind
Cooldown_increment_late(self) ==
    IF self.limit = -1 THEN self
    ELSE LET s == IF self.counter = 0
                  THEN [self EXCEPT !.resets_at = now + self.reset_after]
                  ELSE IF now > self.resets_at
                  THEN [self EXCEPT !.counter = 0, !.resets_at = now + self.reset_after]
                  ELSE self
         IN IF s.counter < s.limit THEN [s EXCEPT !.counter = @ + 1] ELSE s

\* a slip: the counter is not capped at the limit
Cooldown_increment_uncapped(self) ==
    IF self.limit = -1 THEN self
    ELSE LET s == IF self.counter = 0
                  THEN [self EXCEPT !.resets_at = now + self.reset_after]
                  ELSE IF now >= self.resets_at
                  THEN [self EXCEPT !.counter = 0, !.resets_at = now + self.reset_after]
                  ELSE self
         IN [s EXCEPT !.counter = @ + 1]

\* a slip: a use of a full state pushes the end of its window back
Cooldown_increment_extending(self) ==
    IF self.limit = -1 THEN self
    ELSE LET s == IF self.counter = 0 \/ self.counter >= self.limit
                  THEN [self EXCEPT !.resets_at = now + self.reset_after]
                  ELSE IF now >= self.resets_at
                  THEN [self EXCEPT !.counter = 0, !.resets_at = now + self.reset_after]
                  ELSE self
         IN IF s.counter < s.limit THEN [s EXCEPT !.counter = @ + 1] ELSE s

Cooldown_increment(self) ==
    IF self.limit = -1 THEN self
    ELSE LET s == IF self.counter = 0
                  THEN [self EXCEPT !.resets_at = now + self.reset_after]
                  ELSE IF now >= self.resets_at
                  THEN [self EXCEPT !.counter = 0, !.resets_at = now + self.reset_after]
                  ELSE self
         IN IF s.counter < s.limit THEN [s EXCEPT !.counter = @ + 1] ELSE s

\* a slip: one use too many before the wait
Cooldown_must_wait_for_lax(self) ==
    IF self.limit = -1 THEN None
    ELSE IF self.counter > self.limit /\ self.resets_at - now > 0
    THEN self.resets_at - now
    ELSE None

Cooldown_must_wait_for(self) ==
    IF self.limit = -1 THEN None
    ELSE IF self.counter >= self.limit /\ self.resets_at - now > 0
    THEN self.resets_at - now
    ELSE None

-----------------------------------------------------------------------------
(* _FlatResource, _MemberResource, _GlobalResource.  make_resource is the    *)
(* closure's captured arguments; fresh is the value make_resource() returns. *)

FlatResource(resource, make_resource) ==
    [kind |-> "flat", resource |-> resource, make_resource |-> make_resource,
     mapping |-> EmptyMap, guild_mapping |-> EmptyMap, dm_fallback |-> EmptyMap,
     bucket |-> <<>>]

MemberResource(make_resource) ==
    [kind |-> "member", resource |-> MEMBER, make_resource |-> make_resource,
     mapping |-> EmptyMap, guild_mapping |-> EmptyMap, dm_fallback |-> EmptyMap,
     bucket |-> <<>>]

GlobalResource(make_resource, fresh) ==
    [kind |-> "global", resource |-> GLOBAL, make_resource |-> make_resource,
     mapping |-> EmptyMap, guild_mapping |-> EmptyMap, dm_fallback |-> EmptyMap,
     bucket |-> <<fresh>>]

_to_bucket(resource, make_resource, fresh) ==
    IF resource = MEMBER THEN MemberResource(make_resource)
    ELSE IF resource = GLOBAL THEN GlobalResource(make_resource, fresh)
    ELSE FlatResource(resource, make_resource)

\* a slip: the copy is the bucket itself, states included
Resource_copy_shallow(self, fresh) == self

Resource_copy(self, fresh) ==
    IF self.kind = "member" THEN MemberResource(self.make_resource)
    ELSE IF self.kind = "global" THEN GlobalResource(self.make_resource, fresh)
    ELSE FlatResource(self.resource, self.make_resource)

\* a slip: outside a guild a MEMBER bucket is keyed by the author
Slot_dm_by_author(self, ctx) ==
    IF self.kind = "global" THEN [at |-> "global", k1 |-> None, k2 |-> None]
    ELSE IF self.kind = "member" THEN
        IF ctx.guild_id = None
        THEN [at |-> "dm", k1 |-> ctx.author_id, k2 |-> None]
        ELSE [at |-> "guild", k1 |-> ctx.guild_id, k2 |-> ctx.author_id]
    ELSE [at |-> "flat", k1 |-> _get_ctx_target(ctx, self.resource), k2 |-> None]

\* where the context's state lives in the bucket: <<"flat", target>>,
\* <<"dm", channel_id, 0>>, <<"guild", guild_id, author_id>> or <<"global">>
Slot(self, ctx) ==
    IF self.kind = "global" THEN [at |-> "global", k1 |-> None, k2 |-> None]
    ELSE IF self.kind = "member" THEN
        IF ctx.guild_id = None
        THEN [at |-> "dm", k1 |-> ctx.channel_id, k2 |-> None]
        ELSE [at |-> "guild", k1 |-> ctx.guild_id, k2 |-> ctx.author_id]
    ELSE [at |-> "flat", k1 |-> _get_ctx_target(ctx, self.resource), k2 |-> None]

\* the state stored at a slot, as an optional
At(self, slot) ==
    IF slot.at = "global" THEN self.bucket
    ELSE IF slot.at = "dm" THEN
        (IF slot.k1 \in DOMAIN self.dm_fallback THEN <<self.dm_fallback[slot.k1]>> ELSE <<>>)
    ELSE IF slot.at = "guild" THEN
        (IF slot.k1 \in DOMAIN self.guild_mapping
            /\ slot.k2 \in DOMAIN self.guild_mapping[slot.k1]
         THEN <<self.guild_mapping[slot.k1][slot.k2]>> ELSE <<>>)
    ELSE (IF slot.k1 \in DOMAIN self.mapping THEN <<self.mapping[slot.k1]>> ELSE <<>>)

\* a slip: the keys of a flat bucket share one state
Store_shared(self, slot, v) ==
    IF slot.at = "global" THEN [self EXCEPT !.bucket = <<v>>]
    ELSE IF slot.at = "dm" THEN [self EXCEPT !.dm_fallback = Put(@, slot.k1, v)]
    ELSE IF slot.at = "guild" THEN
        [self EXCEPT !.guild_mapping =
            Put(@, slot.k1, Put(IF slot.k1 \in DOMAIN @ THEN @[slot.k1] ELSE EmptyMap,
                                slot.k2, v))]
    ELSE [self EXCEPT !.mapping = [k \in DOMAIN @ \cup {slot.k1} |-> v]]

\* the bucket with the state at a slot set to v
Store(self, slot, v) ==
    IF slot.at = "global" THEN [self EXCEPT !.bucket = <<v>>]
    ELSE IF slot.at = "dm" THEN [self EXCEPT !.dm_fallback = Put(@, slot.k1, v)]
    ELSE IF slot.at = "guild" THEN
        [self EXCEPT !.guild_mapping =
            Put(@, slot.k1, Put(IF slot.k1 \in DOMAIN @ THEN @[slot.k1] ELSE EmptyMap,
                                slot.k2, v))]
    ELSE [self EXCEPT !.mapping = Put(@, slot.k1, v)]

Resource_try_into_inner(self, ctx) == At(self, Slot(self, ctx))

\* the bucket after into_inner and the state it returns
Resource_into_inner(self, ctx, fresh) ==
    LET slot == Slot(self, ctx)
    IN IF At(self, slot) # <<>>
       THEN [self |-> self, resource |-> At(self, slot)[1]]
       ELSE [self |-> Store(self, slot, fresh), resource |-> fresh]

Range(f) == {f[x] : x \in DOMAIN f}

\* every inner state the bucket holds
Refs(bucket) ==
    Range(bucket.mapping) \cup Range(bucket.dm_fallback) \cup Range(bucket.bucket)
    \cup UNION {Range(bucket.guild_mapping[g]) : g \in DOMAIN bucket.guild_mapping}

\* a slip: a submap emptied by the sweep stays in the map
Resource_cleanup_unpruned(self, expired) ==
    IF self.kind = "global" THEN self
    ELSE IF self.kind = "member" THEN
        [self EXCEPT
           !.guild_mapping = [g \in DOMAIN @ |->
                                Drop(@[g], {u \in DOMAIN @[g] : @[g][u] \in expired})],
           !.dm_fallback = Drop(@, {k \in DOMAIN @ : @[k] \in expired})]
    ELSE [self EXCEPT !.mapping = Drop(@, {k \in DOMAIN @ : @[k] \in expired})]

\* cleanup(); expired is the set of the bucket's states whose has_expired() is true
Resource_cleanup(self, expired) ==
    IF self.kind = "global" THEN self
    ELSE IF self.kind = "member" THEN
        LET swept == [g \in DOMAIN self.guild_mapping |->
                        Drop(self.guild_mapping[g],
                             {u \in DOMAIN self.guild_mapping[g] :
                                self.guild_mapping[g][u] \in expired})]
        IN [self EXCEPT
              !.guild_mapping = Drop(swept, {g \in DOMAIN swept : DOMAIN swept[g] = {}}),
              !.dm_fallback = Drop(@, {k \in DOMAIN @ : @[k] \in expired})]
    ELSE [self EXCEPT !.mapping = Drop(@, {k \in DOMAIN @ : @[k] \in expired})]

-----------------------------------------------------------------------------
(* Inputs of the operations.  A run uses one bucket id (ids) and installs a   *)
(* bucket at most once (configured), at any moment: before the first use, or  *)
(* under states and acquisitions made through the bucket it replaces.         *)
(* 4 is the value of the commented-out BucketResource.CATEGORY.               *)

BucketIds == {"default", "mod"}
ResourceInputs == {USER, MEMBER, GLOBAL, 4}
LimitInputs == 0..MaxLimit
ResetAfterInputs == {0, 2}

NoSlot == [at |-> "none", k1 |-> None, k2 |-> None]

\* what the most recent call was, its arguments (args: those of set_bucket),
\* what it found (slot: where the context's
\* state lives; before: the state there, or the state released; obj: the object
\* acquired on or released) and what it returned
Call(op, bucket_id, c, increment, slot, before, obj, wait, acquired, raised) ==
    [op |-> op, bucket_id |-> bucket_id, ctx |-> c, increment |-> increment,
     slot |-> slot, before |-> before, obj |-> obj, wait |-> wait,
     acquired |-> acquired, raised |-> raised, args |-> <<>>]

Step(op) == Call(op, "", 0, FALSE, NoSlot, <<>>, None, None, FALSE, FALSE)

-----------------------------------------------------------------------------
(* InMemoryCooldownManager *)

\* a step of the cooldown manager leaves everything else alone
CooldownStep ==
    /\ manager = "cooldown"
    /\ UNCHANGED <<parent_id, manager, ids, targets, callers, cc_vars, limit_obj, res_obj,
                   pending, cd_accepted, unswept>>

CooldownOf(make_resource) == Cooldown(make_resource.limit, make_resource.reset_after)

\* a slip: an unknown id gets the bucket the manager was constructed with
Cooldown_get_or_default_initial(bucket_id) ==
    IF bucket_id \in DOMAIN cd_buckets THEN cd_buckets
    ELSE Put(cd_buckets, bucket_id, FlatResource(USER, [limit |-> 2, reset_after |-> 5]))

\* _get_or_default: the bucket map afterwards (the bucket is at bucket_id)
Cooldown_get_or_default(bucket_id) ==
    IF bucket_id \in DOMAIN cd_buckets THEN cd_buckets
    ELSE Put(cd_buckets, bucket_id,
             Resource_copy(cd_template, CooldownOf(cd_template.make_resource)))

\* history of the first window of a key: opened by a check_cooldown(increment=True)
\* that creates the key's state, it counts such calls (up to limit + 1) until
\* the window has elapsed.  One key is followed at a time; which, is arbitrary.
\* No key is followed while the history of uses (cd_uses) is kept.
Followed(bucket_id, slot) ==
    cd_window # <<>> /\ cd_window[1].bucket_id = bucket_id /\ cd_window[1].slot = slot

WindowAfterCheck(bucket_id, slot, created, resource, follow) ==
    IF created
    THEN IF follow
         THEN <<[bucket_id |-> bucket_id, slot |-> slot, first |-> now, calls |-> 1]>>
         ELSE IF Followed(bucket_id, slot) THEN <<>> ELSE cd_window
    ELSE IF Followed(bucket_id, slot)
    THEN IF now < cd_window[1].first + resource.reset_after
         THEN <<[cd_window[1] EXCEPT
                   !.calls = IF @ <= resource.limit THEN @ + 1 ELSE @]>>
         ELSE <<>>
    ELSE cd_window

\* history of the key of context 1, kept when cd_uses.on: start is the time of
\* the use (an accepted check_cooldown(increment=True), or an increment_cooldown)
\* that opened the current window, the first use ever or the first one made
\* reset_after or more after the previous start; count is the number of
\* accepted checks since start; times are the times of the latest limit + 1
\* accepted checks.  A stored bucket starts the history anew.
NoUses(on) == [on |-> on, start |-> <<>>, count |-> 0, times |-> <<>>]

UsesAfter(bucket, slot, accepted) ==
    IF ~cd_uses.on \/ slot # Slot(bucket, Context(1)) \/ bucket.make_resource.limit = -1
    THEN cd_uses
    ELSE LET opens == \/ cd_uses.start = <<>>
                      \/ now >= cd_uses.start[1] + bucket.make_resource.reset_after
             times == IF accepted THEN Append(cd_uses.times, now) ELSE cd_uses.times
             keep == bucket.make_resource.limit + 1
         IN [on |-> TRUE,
             start |-> IF opens THEN <<now>> ELSE cd_uses.start,
             count |-> (IF opens THEN 0 ELSE cd_uses.count) + (IF accepted THEN 1 ELSE 0),
             times |-> IF Len(times) > keep
                       THEN SubSeq(times, Len(times) - keep + 1, Len(times))
                       ELSE times]

\* check_cooldown, increment=True
check_cooldown_increment(bucket_id, c) ==
    LET ctx == Context(c)
        buckets == Cooldown_get_or_default(bucket_id)
        slot == Slot(buckets[bucket_id], ctx)
        before == At(buckets[bucket_id], slot)
        inner == Resource_into_inner(buckets[bucket_id], ctx,
                                     CooldownOf(buckets[bucket_id].make_resource))
        cooldown == Cooldown_must_wait_for(inner.resource)
    IN IF slot.k1 = Raised
       THEN /\ cd_buckets' = buckets
            /\ last' = Call("check_cooldown", bucket_id, c, TRUE, slot, <<>>,
                            None, None, FALSE, TRUE)
            /\ UNCHANGED <<cd_window, cd_uses>>
       ELSE /\ cd_buckets' =
                  IF cooldown # None
                  THEN Put(buckets, bucket_id, inner.self)
                  ELSE Put(buckets, bucket_id,
                           Store(inner.self, slot, Cooldown_increment(inner.resource)))
            /\ last' = Call("check_cooldown", bucket_id, c, TRUE, slot, before,
                            None, cooldown, FALSE, FALSE)
            /\ \E follow \in IF cd_uses.on THEN {FALSE} ELSE BOOLEAN :
                 cd_window' = WindowAfterCheck(bucket_id, slot, before = <<>>,
                                               inner.resource, follow)
            /\ cd_uses' = IF cooldown # None THEN cd_uses
                          ELSE UsesAfter(buckets[bucket_id], slot, TRUE)

\* a slip: the pure check materializes the bucket and the key's state
check_cooldown_pure_eager(bucket_id, c) ==
    LET ctx == Context(c)
        buckets == Cooldown_get_or_default(bucket_id)
        slot == Slot(buckets[bucket_id], ctx)
        inner == Resource_into_inner(buckets[bucket_id], ctx,
                                     CooldownOf(buckets[bucket_id].make_resource))
    IN /\ cd_buckets' = Put(buckets, bucket_id, inner.self)
       /\ last' = Call("check_cooldown", bucket_id, c, FALSE, slot,
                       At(buckets[bucket_id], slot), None,
                       Cooldown_must_wait_for(inner.resource), FALSE, FALSE)
       /\ UNCHANGED <<cd_window, cd_uses>>

\* check_cooldown, increment=False
check_cooldown_pure(bucket_id, c) ==
    LET ctx == Context(c)
        known == bucket_id \in DOMAIN cd_buckets
        slot == IF known THEN Slot(cd_buckets[bucket_id], ctx) ELSE NoSlot
        found == IF known THEN Resource_try_into_inner(cd_buckets[bucket_id], ctx)
                 ELSE <<>>
    IN /\ last' = Call("check_cooldown", bucket_id, c, FALSE, slot, found, None,
                       IF found # <<>> THEN Cooldown_must_wait_for(found[1]) ELSE None,
                       FALSE, known /\ slot.k1 = Raised)
       /\ UNCHANGED <<cd_buckets, cd_window, cd_uses>>

check_cooldown(bucket_id, c, increment) ==
    IF increment THEN check_cooldown_increment(bucket_id, c)
    ELSE check_cooldown_pure(bucket_id, c)

CheckCooldown ==
    \E bucket_id \in ids, c \in CooldownContextIds, increment \in BOOLEAN :
        /\ CooldownStep
        /\ check_cooldown(bucket_id, c, increment)
        /\ UNCHANGED <<now, cd_template, cd_gc_task, disabled, configured>>

increment_cooldown(bucket_id, c) ==
    LET ctx == Context(c)
        buckets == Cooldown_get_or_default(bucket_id)
        slot == Slot(buckets[bucket_id], ctx)
        before == At(buckets[bucket_id], slot)
        inner == Resource_into_inner(buckets[bucket_id], ctx,
                                     CooldownOf(buckets[bucket_id].make_resource))
    IN IF slot.k1 = Raised
       THEN /\ cd_buckets' = buckets
            /\ last' = Call("increment_cooldown", bucket_id, c, TRUE, slot, <<>>,
                            None, None, FALSE, TRUE)
            /\ UNCHANGED <<cd_window, cd_uses>>
       ELSE /\ cd_buckets' = Put(buckets, bucket_id,
                                 Store(inner.self, slot, Cooldown_increment(inner.resource)))
            /\ last' = Call("increment_cooldown", bucket_id, c, TRUE, slot, before,
                            None, None, FALSE, FALSE)
            /\ cd_window' = IF Followed(bucket_id, slot) THEN <<>> ELSE cd_window
            /\ cd_uses' = UsesAfter(buckets[bucket_id], slot, FALSE)

IncrementCooldown ==
    \E bucket_id \in ids, c \in CooldownContextIds :
        /\ CooldownStep
        /\ increment_cooldown(bucket_id, c)
        /\ UNCHANGED <<now, cd_template, cd_gc_task, disabled, configured>>

-----------------------------------------------------------------------------
(* Calls of the cooldown manager that suspend.  A coroutine gives up control  *)
(* only at an await that does not complete at once: in check_cooldown and     *)
(* increment_cooldown that is the look-up of the key in into_inner, when      *)
(* _get_ctx_target awaits a cache or a fetch.  A call is then two steps: up   *)
(* to the await, and from the answer to its return.                           *)

Tasks == {1, 2}

\* commands in guild 20 whose channel is not in the gateway cache: 2 is in a
\* channel whose parent the fetch returns, 3 in a channel without a parent
FetchingContextIds == {2, 3}

FetchingContext(c) ==
    [Context(c) EXCEPT !.cached_channel = <<>>,
                       !.fetch_channel = IF c = 2 THEN parent_id ELSE None]

\* _get_ctx_target awaits a collaborator
Suspends(ctx, type_) ==
    \E i \in DOMAIN _get_ctx_target_calls(ctx, type_) :
        _get_ctx_target_calls(ctx, type_)[i] # "get_channel"
        /\ _get_ctx_target_calls(ctx, type_)[i] # "get_roles"

SuspendedStep ==
    UNCHANGED <<env, cd_template, cd_gc_task, cd_window, cd_uses, cc_vars,
                limit_obj, res_obj, unswept, disabled, configured>>

\* check_cooldown(increment=True) or increment_cooldown up to the await in
\* _get_ctx_target: _get_or_default has run
CooldownCallBegin ==
    \E t \in Tasks \ DOMAIN pending, bucket_id \in ids, c \in FetchingContextIds,
       op \in {"check_cooldown", "increment_cooldown"} :
        LET buckets == Cooldown_get_or_default(bucket_id)
        IN /\ manager = "cooldown"
           /\ buckets[bucket_id].kind = "flat"
           /\ Suspends(FetchingContext(c), buckets[bucket_id].resource)
           /\ cd_buckets' = buckets
           /\ pending' = Put(pending, t, [op |-> op, bucket_id |-> bucket_id, ctx |-> c,
                                          pc |-> "resolving", wait |-> None])
           /\ last' = [Step("await") EXCEPT !.bucket_id = bucket_id, !.ctx = c]
           /\ UNCHANGED cd_accepted
           /\ SuspendedStep

\* the history of a key after a use of it at this instant
AcceptedAfter(bucket_id, key, reset_after, accepted) ==
    LET known == <<bucket_id, key>> \in DOMAIN cd_accepted
        opens == ~known \/ now >= cd_accepted[<<bucket_id, key>>].start + reset_after
    IN Put(cd_accepted, <<bucket_id, key>>,
           [start |-> IF opens THEN now ELSE cd_accepted[<<bucket_id, key>>].start,
            count |-> (IF opens THEN 0 ELSE cd_accepted[<<bucket_id, key>>].count)
                      + (IF accepted THEN 1 ELSE 0)])

\* a slip: the call suspends once more between must_wait_for() and increment()
check_cooldown_resume_split(t) ==
    LET call == pending[t]
        ctx == FetchingContext(call.ctx)
        bucket == cd_buckets[call.bucket_id]
        slot == Slot(bucket, ctx)
        before == At(bucket, slot)
        inner == Resource_into_inner(bucket, ctx, CooldownOf(bucket.make_resource))
        cooldown == Cooldown_must_wait_for(inner.resource)
    IN IF call.pc = "resolving" /\ cooldown = None
       THEN /\ cd_buckets' = Put(cd_buckets, call.bucket_id, inner.self)
            /\ pending' = Put(pending, t, [call EXCEPT !.pc = "tested"])
            /\ last' = [Step("await") EXCEPT !.bucket_id = call.bucket_id, !.ctx = call.ctx]
            /\ UNCHANGED cd_accepted
       ELSE /\ cd_buckets' =
                  IF call.pc = "resolving"
                  THEN Put(cd_buckets, call.bucket_id, inner.self)
                  ELSE Put(cd_buckets, call.bucket_id,
                           Store(inner.self, slot, Cooldown_increment(inner.resource)))
            /\ pending' = Drop(pending, {t})
            /\ last' = Call("check_cooldown", call.bucket_id, call.ctx, TRUE, slot, before,
                            None, IF call.pc = "resolving" THEN cooldown ELSE None,
                            FALSE, FALSE)
            /\ cd_accepted' = IF call.pc = "resolving" THEN cd_accepted
                              ELSE AcceptedAfter(call.bucket_id, slot.k1,
                                                 bucket.make_resource.reset_after, TRUE)

\* check_cooldown(increment=True) from the answer of the look-up to its
\* return: the rest of into_inner, must_wait_for() and increment()
check_cooldown_resume(t) ==
    LET call == pending[t]
        ctx == FetchingContext(call.ctx)
        bucket == cd_buckets[call.bucket_id]
        slot == Slot(bucket, ctx)
        before == At(bucket, slot)
        inner == Resource_into_inner(bucket, ctx, CooldownOf(bucket.make_resource))
        cooldown == Cooldown_must_wait_for(inner.resource)
    IN /\ cd_buckets' =
             IF cooldown # None
             THEN Put(cd_buckets, call.bucket_id, inner.self)
             ELSE Put(cd_buckets, call.bucket_id,
                      Store(inner.self, slot, Cooldown_increment(inner.resource)))
       /\ pending' = Drop(pending, {t})
       /\ last' = Call("check_cooldown", call.bucket_id, call.ctx, TRUE, slot, before,
                       None, cooldown, FALSE, FALSE)
       /\ cd_accepted' = IF cooldown # None \/ bucket.make_resource.limit = -1
                         THEN cd_accepted
                         ELSE AcceptedAfter(call.bucket_id, slot.k1,
                                            bucket.make_resource.reset_after, TRUE)

\* increment_cooldown from the answer of the look-up to its return
increment_cooldown_resume(t) ==
    LET call == pending[t]
        ctx == FetchingContext(call.ctx)
        bucket == cd_buckets[call.bucket_id]
        slot == Slot(bucket, ctx)
        before == At(bucket, slot)
        inner == Resource_into_inner(bucket, ctx, CooldownOf(bucket.make_resource))
    IN /\ cd_buckets' = Put(cd_buckets, call.bucket_id,
                            Store(inner.self, slot, Cooldown_increment(inner.resource)))
       /\ pending' = Drop(pending, {t})
       /\ last' = Call("increment_cooldown", call.bucket_id, call.ctx, TRUE, slot, before,
                       None, None, FALSE, FALSE)
       /\ cd_accepted' = IF bucket.make_resource.limit = -1 THEN cd_accepted
                         ELSE AcceptedAfter(call.bucket_id, slot.k1,
                                            bucket.make_resource.reset_after, FALSE)

CooldownCallResume ==
    \E t \in DOMAIN pending :
        /\ manager = "cooldown"
        /\ IF pending[t].op = "check_cooldown"
           THEN check_cooldown_resume(t)
           ELSE increment_cooldown_resume(t)
        /\ SuspendedStep

-----------------------------------------------------------------------------
(* The sweep, the life cycle and the configuration of the cooldown manager *)

\* one pass of the loop of _gc: every bucket's cleanup()
Cooldown_gc ==
    /\ CooldownStep
    /\ cd_gc_task
    /\ cd_buckets' = [b \in DOMAIN cd_buckets |->
                        Resource_cleanup(cd_buckets[b],
                            {s \in Refs(cd_buckets[b]) : Cooldown_has_expired(s)})]
    /\ cd_window' = IF cd_window # <<>>
                        /\ At(cd_buckets'[cd_window[1].bucket_id], cd_window[1].slot) = <<>>
                     THEN <<>> ELSE cd_window
    /\ last' = Step("gc")
    /\ UNCHANGED <<now, cd_template, cd_gc_task, cd_uses, disabled, configured>>

Cooldown_close ==
    /\ CooldownStep
    /\ IF ~cd_gc_task
       THEN /\ last' = [Step("close") EXCEPT !.raised = TRUE]
            /\ UNCHANGED cd_gc_task
       ELSE /\ cd_gc_task' = FALSE
            /\ last' = Step("close")
    /\ UNCHANGED <<now, cd_buckets, cd_template, cd_window, cd_uses, disabled, configured>>

\* a slip: open() starts a sweep task whatever the state
Cooldown_open_again ==
    /\ CooldownStep
    /\ cd_gc_task' = TRUE
    /\ last' = Step("open")
    /\ UNCHANGED <<now, cd_buckets, cd_template, cd_window, cd_uses, disabled, configured>>

Cooldown_open ==
    /\ CooldownStep
    /\ IF cd_gc_task
       THEN /\ last' = [Step("open") EXCEPT !.raised = TRUE]
            /\ UNCHANGED cd_gc_task
       ELSE /\ cd_gc_task' = TRUE
            /\ last' = Step("open")
    /\ UNCHANGED <<now, cd_buckets, cd_template, cd_window, cd_uses, disabled, configured>>

Cooldown_disable_bucket(bucket_id) ==
    LET make_resource == [limit |-> -1, reset_after |-> -1]
        bucket == GlobalResource(make_resource, CooldownOf(make_resource))
    IN /\ cd_buckets' = Put(cd_buckets, bucket_id, bucket)
       /\ cd_template' = IF bucket_id = "default"
                         THEN Resource_copy(bucket, CooldownOf(make_resource))
                         ELSE cd_template
       /\ cd_window' = IF cd_window # <<>> /\ cd_window[1].bucket_id = bucket_id
                        THEN <<>> ELSE cd_window
       /\ cd_uses' = NoUses(cd_uses.on)
       /\ disabled' = disabled \cup {bucket_id}
       /\ configured' = TRUE
       /\ last' = [Step("disable_bucket") EXCEPT !.bucket_id = bucket_id]

CooldownDisableBucket ==
    \E bucket_id \in targets :
        /\ CooldownStep
        /\ ~configured
        /\ Cooldown_disable_bucket(bucket_id)
        /\ UNCHANGED <<now, cd_gc_task>>

Cooldown_set_bucket(bucket_id, resource, limit, reset_after) ==
    IF reset_after <= 0 \/ limit <= 0 \/ resource \notin BucketResource
    THEN /\ last' = [Step("set_bucket") EXCEPT !.bucket_id = bucket_id, !.raised = TRUE,
                                               !.args = <<resource, limit, reset_after>>]
         /\ UNCHANGED <<cd_buckets, cd_template, cd_window, cd_uses, disabled, configured>>
    ELSE LET make_resource == [limit |-> limit, reset_after |-> reset_after]
             bucket == _to_bucket(resource, make_resource, CooldownOf(make_resource))
         IN /\ cd_buckets' = Put(cd_buckets, bucket_id, bucket)
            /\ cd_template' = IF bucket_id = "default"
                              THEN Resource_copy(bucket, CooldownOf(make_resource))
                              ELSE cd_template
            /\ cd_window' = IF cd_window # <<>> /\ cd_window[1].bucket_id = bucket_id
                        THEN <<>> ELSE cd_window
            /\ cd_uses' = NoUses(cd_uses.on)
            /\ disabled' = disabled \ {bucket_id}
            /\ configured' = TRUE
            /\ last' = [Step("set_bucket") EXCEPT !.bucket_id = bucket_id,
                                                  !.args = <<resource, limit, reset_after>>]

CooldownSetBucket ==
    \E bucket_id \in targets, resource \in ResourceInputs,
       limit \in LimitInputs, reset_after \in ResetAfterInputs :
        /\ CooldownStep
        /\ ~configured
        /\ Cooldown_set_bucket(bucket_id, resource, limit, reset_after)
        /\ UNCHANGED <<now, cd_gc_task>>

\* time passes between two calls
Tick ==
    /\ CooldownStep
    /\ now < MaxTime
    /\ now' = now + 1
    /\ last' = Step("tick")
    /\ UNCHANGED <<cd_vars, disabled, configured>>

-----------------------------------------------------------------------------
(* _ConcurrencyLimit *)

ConcurrencyLimit(limit) == [counter |-> 0, limit |-> limit]

\* a slip: one acquisition too many
ConcurrencyLimit_acquire_lax(self) ==
    IF self.counter <= self.limit
    THEN [self |-> [self EXCEPT !.counter = @ + 1], result |-> TRUE]
    ELSE IF self.limit = -1 THEN [self |-> self, result |-> TRUE]
    ELSE [self |-> self, result |-> FALSE]

\* a slip: the unlimited case is forgotten
ConcurrencyLimit_acquire_capped(self) ==
    IF self.counter < self.limit
    THEN [self |-> [self EXCEPT !.counter = @ + 1], result |-> TRUE]
    ELSE [self |-> self, result |-> FALSE]

ConcurrencyLimit_acquire(self) ==
    IF self.counter < self.limit
    THEN [self |-> [self EXCEPT !.counter = @ + 1], result |-> TRUE]
    ELSE IF self.limit = -1 THEN [self |-> self, result |-> TRUE]
    ELSE [self |-> self, result |-> FALSE]

\* a slip: the release gives nothing back
ConcurrencyLimit_release_kept(self) ==
    IF self.counter > 0 THEN [self |-> self, raised |-> FALSE]
    ELSE IF self.limit = -1 THEN [self |-> self, raised |-> FALSE]
    ELSE [self |-> self, raised |-> TRUE]

\* a slip: a release without an acquire passes in silence
ConcurrencyLimit_release_silent(self) ==
    IF self.counter > 0
    THEN [self |-> [self EXCEPT !.counter = @ - 1], raised |-> FALSE]
    ELSE [self |-> self, raised |-> FALSE]

ConcurrencyLimit_release(self) ==
    IF self.counter > 0
    THEN [self |-> [self EXCEPT !.counter = @ - 1], raised |-> FALSE]
    ELSE IF self.limit = -1 THEN [self |-> self, raised |-> FALSE]
    ELSE [self |-> self, raised |-> TRUE]

\* a slip: a state with room left counts as idle
ConcurrencyLimit_has_expired_below(self) == self.counter < self.limit

ConcurrencyLimit_has_expired(self) == self.counter = 0

-----------------------------------------------------------------------------
(* The _ConcurrencyLimit objects.  A bucket of the limiter holds object ids,   *)
(* so that the ledger and a bucket can refer to the same object; an object no  *)
(* bucket, template or ledger entry refers to is garbage and leaves the heap.  *)

NewId(h) ==
    CHOOSE i \in 1..(Cardinality(DOMAIN h) + 1) :
        i \notin DOMAIN h /\ \A j \in 1..(i - 1) : j \in DOMAIN h

Collect(h, buckets, template, ledger) ==
    LET live == UNION {Refs(buckets[b]) : b \in DOMAIN buckets}
                \cup Refs(template) \cup Range(ledger)
    IN [o \in DOMAIN h \cap live |-> h[o]]

-----------------------------------------------------------------------------
(* InMemoryConcurrencyLimiter *)

ConcurrencyResourceInputs == {USER, PARENT_CHANNEL, GLOBAL, 4}

\* a step of the concurrency limiter leaves everything else alone
ConcurrencyStep ==
    /\ manager = "concurrency"
    /\ UNCHANGED <<now, manager, ids, targets, callers, cd_vars, limit_obj, res_obj,
                   pending, cd_accepted, unswept>>

\* a slip: no de-duplication of the context
AlreadyAcquiring_never(bucket_id, c) == FALSE

\* elif (bucket_id, ctx) in self._acquiring_ctxs, reached when the bucket exists
AlreadyAcquiring(bucket_id, c) ==
    bucket_id \in DOMAIN cc_buckets /\ <<bucket_id, c>> \in DOMAIN acquiring_ctxs

try_acquire(bucket_id, c) ==
    LET ctx == Context(c)
        known == bucket_id \in DOMAIN cc_buckets
        \* bucket = self._buckets[bucket_id] = self._default_bucket_template.copy()
        copied == NewId(heap)
        heap1 == IF ~known /\ cc_template.kind = "global"
                 THEN Put(heap, copied, ConcurrencyLimit(cc_template.make_resource.limit))
                 ELSE heap
        buckets == IF known THEN cc_buckets
                   ELSE Put(cc_buckets, bucket_id, Resource_copy(cc_template, copied))
    IN IF AlreadyAcquiring(bucket_id, c)
       THEN /\ last' = Call("try_acquire", bucket_id, c, FALSE, NoSlot, <<>>, None,
                            None, TRUE, FALSE)
            /\ UNCHANGED <<cc_buckets, acquiring_ctxs, heap, held>>
       ELSE LET bucket == buckets[bucket_id]
                slot == Slot(bucket, ctx)
                before == At(bucket, slot)
                made == NewId(heap1)
                inner == Resource_into_inner(bucket, ctx, made)
                heap2 == IF before = <<>>
                         THEN Put(heap1, made, ConcurrencyLimit(bucket.make_resource.limit))
                         ELSE heap1
                limit == inner.resource
                acquire == ConcurrencyLimit_acquire(heap2[limit])
                ledger == IF acquire.result
                          THEN Put(acquiring_ctxs, <<bucket_id, c>>, limit)
                          ELSE acquiring_ctxs
            IN IF slot.k1 = Raised
               THEN /\ cc_buckets' = buckets
                    /\ heap' = Collect(heap1, buckets, cc_template, acquiring_ctxs)
                    /\ last' = Call("try_acquire", bucket_id, c, FALSE, slot, <<>>, None,
                                    None, FALSE, TRUE)
                    /\ UNCHANGED <<acquiring_ctxs, held>>
               ELSE /\ cc_buckets' = Put(buckets, bucket_id, inner.self)
                    /\ acquiring_ctxs' = ledger
                    /\ heap' = Collect(Put(heap2, limit, acquire.self),
                                       cc_buckets', cc_template, ledger)
                    /\ held' = IF acquire.result
                               THEN Put(held, <<bucket_id, c>>, limit) ELSE held
                    /\ last' = Call("try_acquire", bucket_id, c, FALSE, slot,
                                    IF before = <<>> THEN <<>> ELSE <<heap1[before[1]]>>,
                                    limit, None, acquire.result, FALSE)

TryAcquire ==
    \E bucket_id \in ids, c \in callers :
        /\ ConcurrencyStep
        /\ try_acquire(bucket_id, c)
        /\ UNCHANGED <<parent_id, cc_template, cc_gc_task, disabled, configured>>

-----------------------------------------------------------------------------
(* Calls of the limiter that suspend: try_acquire tests the ledger, awaits   *)
(* into_inner, whose look-up of the key may await a cache or a fetch, and     *)
(* acquires and writes the ledger after the answer.  release never awaits.    *)

SuspendedAcquireStep ==
    UNCHANGED <<env, cd_vars, cd_accepted, cc_template, cc_gc_task, limit_obj, res_obj,
                unswept, disabled, configured>>

\* try_acquire up to the await in _get_ctx_target, or to its return when the
\* ledger has an entry for the context
TryAcquireBegin ==
    \E t \in Tasks \ DOMAIN pending, bucket_id \in ids, c \in callers :
        LET known == bucket_id \in DOMAIN cc_buckets
            copied == NewId(heap)
            heap1 == IF ~known /\ cc_template.kind = "global"
                     THEN Put(heap, copied, ConcurrencyLimit(cc_template.make_resource.limit))
                     ELSE heap
            buckets == IF known THEN cc_buckets
                       ELSE Put(cc_buckets, bucket_id, Resource_copy(cc_template, copied))
        IN /\ manager = "concurrency"
           /\ buckets[bucket_id].kind = "flat"
           /\ Suspends(FetchingContext(c), buckets[bucket_id].resource)
           /\ IF AlreadyAcquiring(bucket_id, c)
              THEN /\ last' = Call("try_acquire", bucket_id, c, FALSE, NoSlot, <<>>, None,
                                   None, TRUE, FALSE)
                   /\ UNCHANGED <<cc_buckets, heap, pending>>
              ELSE /\ cc_buckets' = buckets
                   /\ heap' = heap1
                   /\ pending' = Put(pending, t, [op |-> "try_acquire", bucket_id |-> bucket_id,
                                                  ctx |-> c, pc |-> "resolving", wait |-> None])
                   /\ last' = [Step("await") EXCEPT !.bucket_id = bucket_id, !.ctx = c]
           /\ UNCHANGED <<acquiring_ctxs, held>>
           /\ SuspendedAcquireStep

\* try_acquire from the answer of the look-up to its return: the rest of
\* into_inner, acquire() and the entry of the ledger
try_acquire_resume(t) ==
    LET call == pending[t]
        ctx == FetchingContext(call.ctx)
        bucket == cc_buckets[call.bucket_id]
        slot == Slot(bucket, ctx)
        before == At(bucket, slot)
        made == NewId(heap)
        inner == Resource_into_inner(bucket, ctx, made)
        heap2 == IF before = <<>>
                 THEN Put(heap, made, ConcurrencyLimit(bucket.make_resource.limit))
                 ELSE heap
        limit == inner.resource
        acquire == ConcurrencyLimit_acquire(heap2[limit])
        ledger == IF acquire.result
                  THEN Put(acquiring_ctxs, <<call.bucket_id, call.ctx>>, limit)
                  ELSE acquiring_ctxs
    IN /\ cc_buckets' = Put(cc_buckets, call.bucket_id, inner.self)
       /\ acquiring_ctxs' = ledger
       /\ heap' = Collect(Put(heap2, limit, acquire.self), cc_buckets', cc_template, ledger)
       /\ held' = IF acquire.result
                  THEN Put(held, <<call.bucket_id, call.ctx>>, limit) ELSE held
       /\ pending' = Drop(pending, {t})
       /\ last' = Call("try_acquire", call.bucket_id, call.ctx, FALSE, slot,
                       IF before = <<>> THEN <<>> ELSE <<heap[before[1]]>>,
                       limit, None, acquire.result, FALSE)

TryAcquireResume ==
    \E t \in DOMAIN pending :
        /\ manager = "concurrency"
        /\ try_acquire_resume(t)
        /\ SuspendedAcquireStep

-----------------------------------------------------------------------------
(* release, the sweep, the life cycle and the configuration of the limiter *)

\* a slip: the state to release is resolved again from the context
Popped_resolved(bucket_id, c) ==
    LET found == Resource_try_into_inner(cc_buckets[bucket_id], Context(c))
    IN IF found # <<>> THEN found[1] ELSE acquiring_ctxs[<<bucket_id, c>>]

\* self._acquiring_ctxs.pop((bucket_id, ctx), None), when there is an entry
Popped(bucket_id, c) == acquiring_ctxs[<<bucket_id, c>>]

\* a slip: pop() without a default
release_strict(bucket_id, c) ==
    IF <<bucket_id, c>> \in DOMAIN acquiring_ctxs
    THEN LET limit == Popped(bucket_id, c)
             ledger == Drop(acquiring_ctxs, {<<bucket_id, c>>})
             released == ConcurrencyLimit_release(heap[limit])
         IN /\ acquiring_ctxs' = ledger
            /\ heap' = Collect(Put(heap, limit, released.self),
                               cc_buckets, cc_template, ledger)
            /\ last' = Call("release", bucket_id, c, FALSE, NoSlot, <<heap[limit]>>,
                            limit, None, FALSE, released.raised)
    ELSE /\ last' = Call("release", bucket_id, c, FALSE, NoSlot, <<>>, None,
                         None, FALSE, TRUE)
         /\ UNCHANGED <<acquiring_ctxs, heap>>

release(bucket_id, c) ==
    IF <<bucket_id, c>> \in DOMAIN acquiring_ctxs
    THEN LET limit == Popped(bucket_id, c)
             ledger == Drop(acquiring_ctxs, {<<bucket_id, c>>})
             released == ConcurrencyLimit_release(heap[limit])
         IN /\ acquiring_ctxs' = ledger
            /\ heap' = Collect(Put(heap, limit, released.self),
                               cc_buckets, cc_template, ledger)
            /\ last' = Call("release", bucket_id, c, FALSE, NoSlot, <<heap[limit]>>,
                            limit, None, FALSE, released.raised)
    ELSE /\ last' = Call("release", bucket_id, c, FALSE, NoSlot, <<>>, None,
                         None, FALSE, FALSE)
         /\ UNCHANGED <<acquiring_ctxs, heap>>

Release ==
    \E bucket_id \in ids, c \in callers :
        /\ ConcurrencyStep
        /\ release(bucket_id, c)
        /\ held' = Drop(held, {<<bucket_id, c>>})
        /\ UNCHANGED <<parent_id, cc_buckets, cc_template, cc_gc_task, disabled, configured>>

\* a slip: the sweep also drops the buckets it has emptied
Concurrency_gc_pruning ==
    /\ ConcurrencyStep
    /\ cc_gc_task
    /\ LET swept == [b \in DOMAIN cc_buckets |->
                        Resource_cleanup(cc_buckets[b],
                            {o \in Refs(cc_buckets[b]) :
                                ConcurrencyLimit_has_expired(heap[o])})]
       IN cc_buckets' = Drop(swept, {b \in DOMAIN swept : Refs(swept[b]) = {}})
    /\ heap' = Collect(heap, cc_buckets', cc_template, acquiring_ctxs)
    /\ last' = Step("gc")
    /\ UNCHANGED <<parent_id, cc_template, cc_gc_task, acquiring_ctxs, held,
                   disabled, configured>>

\* one pass of the loop of _gc: every bucket's cleanup()
Concurrency_gc ==
    /\ ConcurrencyStep
    /\ cc_gc_task
    /\ cc_buckets' = [b \in DOMAIN cc_buckets |->
                        Resource_cleanup(cc_buckets[b],
                            {o \in Refs(cc_buckets[b]) :
                                ConcurrencyLimit_has_expired(heap[o])})]
    /\ heap' = Collect(heap, cc_buckets', cc_template, acquiring_ctxs)
    /\ last' = Step("gc")
    /\ UNCHANGED <<parent_id, cc_template, cc_gc_task, acquiring_ctxs, held,
                   disabled, configured>>

Concurrency_close ==
    /\ ConcurrencyStep
    /\ IF ~cc_gc_task
       THEN /\ last' = [Step("close") EXCEPT !.raised = TRUE]
            /\ UNCHANGED cc_gc_task
       ELSE /\ cc_gc_task' = FALSE
            /\ last' = Step("close")
    /\ UNCHANGED <<parent_id, cc_buckets, cc_template, acquiring_ctxs, heap, held,
                   disabled, configured>>

Concurrency_open ==
    /\ ConcurrencyStep
    /\ IF cc_gc_task
       THEN /\ last' = [Step("open") EXCEPT !.raised = TRUE]
            /\ UNCHANGED cc_gc_task
       ELSE /\ cc_gc_task' = TRUE
            /\ last' = Step("open")
    /\ UNCHANGED <<parent_id, cc_buckets, cc_template, acquiring_ctxs, heap, held,
                   disabled, configured>>

\* the bucket map, template and heap once bucket is installed at bucket_id
Concurrency_install(bucket_id, resource, limit) ==
    LET made == NewId(heap)
        heap1 == IF resource = GLOBAL THEN Put(heap, made, ConcurrencyLimit(limit)) ELSE heap
        bucket == _to_bucket(resource, [limit |-> limit], made)
        copied == NewId(heap1)
        heap2 == IF resource = GLOBAL /\ bucket_id = "default"
                 THEN Put(heap1, copied, ConcurrencyLimit(limit)) ELSE heap1
    IN /\ cc_buckets' = Put(cc_buckets, bucket_id, bucket)
       /\ cc_template' = IF bucket_id = "default" THEN Resource_copy(bucket, copied)
                         ELSE cc_template
       /\ heap' = Collect(heap2, cc_buckets', cc_template', acquiring_ctxs)

Concurrency_disable_bucket(bucket_id) ==
    /\ Concurrency_install(bucket_id, GLOBAL, -1)
    /\ disabled' = disabled \cup {bucket_id}
    /\ configured' = TRUE
    /\ last' = [Step("disable_bucket") EXCEPT !.bucket_id = bucket_id]

ConcurrencyDisableBucket ==
    \E bucket_id \in targets :
        /\ ConcurrencyStep
        /\ ~configured
        /\ Concurrency_disable_bucket(bucket_id)
        /\ UNCHANGED <<parent_id, cc_gc_task, acquiring_ctxs, held>>

\* a slip: the resource type is checked when the bucket is already stored
Concurrency_set_bucket_stored(bucket_id, resource, limit) ==
    IF limit <= 0
    THEN /\ last' = [Step("set_bucket") EXCEPT !.bucket_id = bucket_id, !.raised = TRUE,
                                               !.args = <<resource, limit>>]
         /\ UNCHANGED <<cc_buckets, cc_template, heap, disabled, configured>>
    ELSE /\ Concurrency_install(bucket_id, IF resource \in BucketResource THEN resource ELSE USER,
                                limit)
         /\ disabled' = disabled \ {bucket_id}
         /\ configured' = TRUE
         /\ last' = [Step("set_bucket") EXCEPT !.bucket_id = bucket_id,
                                               !.raised = resource \notin BucketResource,
                                               !.args = <<resource, limit>>]

Concurrency_set_bucket(bucket_id, resource, limit) ==
    IF limit <= 0 \/ resource \notin BucketResource
    THEN /\ last' = [Step("set_bucket") EXCEPT !.bucket_id = bucket_id, !.raised = TRUE,
                                               !.args = <<resource, limit>>]
         /\ UNCHANGED <<cc_buckets, cc_template, heap, disabled, configured>>
    ELSE /\ Concurrency_install(bucket_id, resource, limit)
         /\ disabled' = disabled \ {bucket_id}
         /\ configured' = TRUE
         /\ last' = [Step("set_bucket") EXCEPT !.bucket_id = bucket_id,
                                               !.args = <<resource, limit>>]

ConcurrencySetBucket ==
    \E bucket_id \in targets, resource \in ConcurrencyResourceInputs, limit \in LimitInputs :
        /\ ConcurrencyStep
        /\ ~configured
        /\ Concurrency_set_bucket(bucket_id, resource, limit)
        /\ UNCHANGED <<parent_id, cc_gc_task, acquiring_ctxs, held>>

\* the gateway cache learns that the guild channel was moved out of its
\* parent; only a PARENT_CHANNEL bucket ever reads parent_id
MoveChannel ==
    /\ ConcurrencyStep
    /\ parent_id # None
    /\ \E b \in DOMAIN cc_buckets : cc_buckets[b].resource = PARENT_CHANNEL
    /\ parent_id' = None
    /\ last' = Step("move_channel")
    /\ UNCHANGED <<cc_vars, disabled, configured>>

-----------------------------------------------------------------------------
(* A second manager, given the same calls at the same times and never swept. *)
(* Its calls are the same handlers as functions of its state: the buckets,    *)
(* and for the limiter the ledger and the objects.                            *)

Returned(wait, acquired, raised) == [wait |-> wait, acquired |-> acquired, raised |-> raised]

\* check_cooldown on the buckets given
Unswept_check_cooldown(buckets, bucket_id, c, increment) ==
    LET ctx == Context(c)
    IN IF increment
       THEN LET bs == IF bucket_id \in DOMAIN buckets THEN buckets
                      ELSE Put(buckets, bucket_id,
                               Resource_copy(cd_template, CooldownOf(cd_template.make_resource)))
                slot == Slot(bs[bucket_id], ctx)
                inner == Resource_into_inner(bs[bucket_id], ctx,
                                             CooldownOf(bs[bucket_id].make_resource))
                cooldown == Cooldown_must_wait_for(inner.resource)
            IN IF slot.k1 = Raised
               THEN [buckets |-> bs, found |-> FALSE, returned |-> Returned(None, FALSE, TRUE)]
               ELSE [buckets |-> IF cooldown # None
                                 THEN Put(bs, bucket_id, inner.self)
                                 ELSE Put(bs, bucket_id,
                                          Store(inner.self, slot,
                                                Cooldown_increment(inner.resource))),
                     found |-> At(bs[bucket_id], slot) # <<>>,
                     returned |-> Returned(cooldown, FALSE, FALSE)]
       ELSE LET known == bucket_id \in DOMAIN buckets
                slot == IF known THEN Slot(buckets[bucket_id], ctx) ELSE NoSlot
                found == IF known THEN Resource_try_into_inner(buckets[bucket_id], ctx)
                         ELSE <<>>
            IN [buckets |-> buckets, found |-> found # <<>>,
                returned |-> Returned(IF found # <<>> THEN Cooldown_must_wait_for(found[1])
                                      ELSE None,
                                      FALSE, known /\ slot.k1 = Raised)]

\* increment_cooldown on the buckets given
Unswept_increment_cooldown(buckets, bucket_id, c) ==
    LET ctx == Context(c)
        bs == IF bucket_id \in DOMAIN buckets THEN buckets
              ELSE Put(buckets, bucket_id,
                       Resource_copy(cd_template, CooldownOf(cd_template.make_resource)))
        slot == Slot(bs[bucket_id], ctx)
        inner == Resource_into_inner(bs[bucket_id], ctx,
                                     CooldownOf(bs[bucket_id].make_resource))
    IN IF slot.k1 = Raised
       THEN [buckets |-> bs, found |-> FALSE, returned |-> Returned(None, FALSE, TRUE)]
       ELSE [buckets |-> Put(bs, bucket_id,
                             Store(inner.self, slot, Cooldown_increment(inner.resource))),
             found |-> At(bs[bucket_id], slot) # <<>>,
             returned |-> Returned(None, FALSE, FALSE)]

\* try_acquire on the buckets, the ledger and the objects given
Unswept_try_acquire(m, bucket_id, c) ==
    LET ctx == Context(c)
        known == bucket_id \in DOMAIN m.cc_buckets
        copied == NewId(m.heap)
        heap1 == IF ~known /\ cc_template.kind = "global"
                 THEN Put(m.heap, copied, ConcurrencyLimit(cc_template.make_resource.limit))
                 ELSE m.heap
        buckets == IF known THEN m.cc_buckets
                   ELSE Put(m.cc_buckets, bucket_id, Resource_copy(cc_template, copied))
    IN IF known /\ <<bucket_id, c>> \in DOMAIN m.acquiring_ctxs
       THEN [m EXCEPT !.found = TRUE, !.returned = Returned(None, TRUE, FALSE)]
       ELSE LET bucket == buckets[bucket_id]
                slot == Slot(bucket, ctx)
                before == At(bucket, slot)
                made == NewId(heap1)
                inner == Resource_into_inner(bucket, ctx, made)
                heap2 == IF before = <<>>
                         THEN Put(heap1, made, ConcurrencyLimit(bucket.make_resource.limit))
                         ELSE heap1
                limit == inner.resource
                acquire == ConcurrencyLimit_acquire(heap2[limit])
                ledger == IF acquire.result
                          THEN Put(m.acquiring_ctxs, <<bucket_id, c>>, limit)
                          ELSE m.acquiring_ctxs
            IN IF slot.k1 = Raised
               THEN [m EXCEPT !.cc_buckets = buckets,
                              !.heap = Collect(heap1, buckets, cc_template, m.acquiring_ctxs),
                              !.found = FALSE,
                              !.returned = Returned(None, FALSE, TRUE)]
               ELSE [m EXCEPT !.cc_buckets = Put(buckets, bucket_id, inner.self),
                              !.acquiring_ctxs = ledger,
                              !.heap = Collect(Put(heap2, limit, acquire.self),
                                               Put(buckets, bucket_id, inner.self),
                                               cc_template, ledger),
                              !.found = before # <<>>,
                              !.returned = Returned(None, acquire.result, FALSE)]

\* release on the ledger and the objects given
Unswept_release(m, bucket_id, c) ==
    IF <<bucket_id, c>> \in DOMAIN m.acquiring_ctxs
    THEN LET limit == m.acquiring_ctxs[<<bucket_id, c>>]
             ledger == Drop(m.acquiring_ctxs, {<<bucket_id, c>>})
             released == ConcurrencyLimit_release(m.heap[limit])
         IN [m EXCEPT !.acquiring_ctxs = ledger,
                      !.heap = Collect(Put(m.heap, limit, released.self),
                                       m.cc_buckets, cc_template, ledger),
                      !.found = TRUE,
                      !.returned = Returned(None, FALSE, released.raised)]
    ELSE [m EXCEPT !.found = FALSE, !.returned = Returned(None, FALSE, FALSE)]

\* a call of this run leaves the configuration and the other histories alone
BesideStep ==
    UNCHANGED <<parent_id, manager, ids, targets, callers, cd_template, cd_gc_task,
                cc_template, cc_gc_task, limit_obj, res_obj, pending, cd_accepted,
                disabled, configured>>

\* check_cooldown, on both managers
CheckCooldownBeside ==
    \E bucket_id \in ids, c \in CooldownContextIds, increment \in BOOLEAN :
        LET r == Unswept_check_cooldown(unswept.cd_buckets, bucket_id, c, increment)
        IN /\ manager = "cooldown"
           /\ check_cooldown(bucket_id, c, increment)
           /\ unswept' = [unswept EXCEPT !.cd_buckets = r.buckets, !.found = r.found,
                                         !.returned = r.returned]
           /\ UNCHANGED <<now, cc_buckets, acquiring_ctxs, heap, held>>
           /\ BesideStep

\* increment_cooldown, on both managers
IncrementCooldownBeside ==
    \E bucket_id \in ids, c \in CooldownContextIds :
        LET r == Unswept_increment_cooldown(unswept.cd_buckets, bucket_id, c)
        IN /\ manager = "cooldown"
           /\ increment_cooldown(bucket_id, c)
           /\ unswept' = [unswept EXCEPT !.cd_buckets = r.buckets, !.found = r.found,
                                         !.returned = r.returned]
           /\ UNCHANGED <<now, cc_buckets, acquiring_ctxs, heap, held>>
           /\ BesideStep

\* try_acquire, on both managers
TryAcquireBeside ==
    \E bucket_id \in ids, c \in callers :
        /\ manager = "concurrency"
        /\ try_acquire(bucket_id, c)
        /\ unswept' = Unswept_try_acquire(unswept, bucket_id, c)
        /\ UNCHANGED <<now, cd_buckets, cd_window, cd_uses>>
        /\ BesideStep

\* release, on both managers
ReleaseBeside ==
    \E bucket_id \in ids, c \in callers :
        /\ manager = "concurrency"
        /\ release(bucket_id, c)
        /\ held' = Drop(held, {<<bucket_id, c>>})
        /\ unswept' = Unswept_release(unswept, bucket_id, c)
        /\ UNCHANGED <<now, cc_buckets, cd_buckets, cd_window, cd_uses>>
        /\ BesideStep

-----------------------------------------------------------------------------
(* A _ConcurrencyLimit called directly *)

LimitStep ==
    /\ manager = "limit"
    /\ UNCHANGED <<env, cd_vars, cc_vars, res_obj, pending, cd_accepted, unswept,
                   disabled, configured>>

Limit_acquire ==
    /\ LimitStep
    /\ limit_obj' = ConcurrencyLimit_acquire(limit_obj).self
    /\ last' = [Step("limit.acquire") EXCEPT
                  !.before = <<limit_obj>>,
                  !.acquired = ConcurrencyLimit_acquire(limit_obj).result]

Limit_release ==
    /\ LimitStep
    /\ limit_obj' = ConcurrencyLimit_release(limit_obj).self
    /\ last' = [Step("limit.release") EXCEPT
                  !.before = <<limit_obj>>,
                  !.raised = ConcurrencyLimit_release(limit_obj).raised]

-----------------------------------------------------------------------------
(* The objects after construction: InMemoryCooldownManager(),               *)
(* InMemoryConcurrencyLimiter(), _ConcurrencyLimit(limit)                   *)

Init ==
    /\ now = 0
    /\ parent_id = 30
    /\ manager \in {"cooldown", "concurrency", "limit"}
    /\ ids \in IF manager = "limit" THEN {{}} ELSE {{b} : b \in BucketIds}
    /\ targets = ids
    /\ callers = ContextIds
    /\ cd_buckets = EmptyMap
    /\ cd_template = FlatResource(USER, [limit |-> 2, reset_after |-> 5])
    /\ cd_gc_task = FALSE
    /\ cc_buckets = EmptyMap
    /\ cc_template = FlatResource(USER, [limit |-> 1])
    /\ cc_gc_task = FALSE
    /\ acquiring_ctxs = EmptyMap
    /\ heap = EmptyMap
    /\ limit_obj \in IF manager = "limit"
                     THEN {ConcurrencyLimit(limit) : limit \in {-1} \cup (1..MaxLimit)}
                     ELSE {ConcurrencyLimit(1)}
    /\ res_obj = FlatResource(USER, [limit |-> 1])
    /\ pending = EmptyMap
    /\ cd_accepted = EmptyMap
    /\ unswept = EmptyMap
    /\ cd_window = <<>>
    /\ cd_uses = NoUses(FALSE)
    /\ held = EmptyMap
    /\ disabled = {}
    /\ configured = FALSE
    /\ last = Step("init")

Next ==
    \/ CheckCooldown
    \/ IncrementCooldown
    \/ Cooldown_gc
    \/ Cooldown_close
    \/ Cooldown_open
    \/ CooldownDisableBucket
    \/ CooldownSetBucket
    \/ Tick
    \/ TryAcquire
    \/ Release
    \/ Concurrency_gc
    \/ Concurrency_close
    \/ Concurrency_open
    \/ ConcurrencyDisableBucket
    \/ ConcurrencySetBucket
    \/ MoveChannel
    \/ Limit_acquire
    \/ Limit_release

Spec == Init /\ [][Next]_vars

-----------------------------------------------------------------------------
(* The managers with callers that use the id "mod", never configured, while   *)
(* set_bucket and disable_bucket are called with "default"                   *)

InitTemplate ==
    /\ now = 0
    /\ parent_id = 30
    /\ manager \in {"cooldown", "concurrency"}
    /\ ids = {"mod"}
    /\ targets = {"default"}
    /\ callers = ContextIds
    /\ cd_buckets = EmptyMap
    /\ cd_template = FlatResource(USER, [limit |-> 2, reset_after |-> 5])
    /\ cd_gc_task = FALSE
    /\ cc_buckets = EmptyMap
    /\ cc_template = FlatResource(USER, [limit |-> 1])
    /\ cc_gc_task = FALSE
    /\ acquiring_ctxs = EmptyMap
    /\ heap = EmptyMap
    /\ limit_obj = ConcurrencyLimit(1)
    /\ res_obj = FlatResource(USER, [limit |-> 1])
    /\ pending = EmptyMap
    /\ cd_accepted = EmptyMap
    /\ unswept = EmptyMap
    /\ cd_window = <<>>
    /\ cd_uses = NoUses(FALSE)
    /\ held = EmptyMap
    /\ disabled = {}
    /\ configured = FALSE
    /\ last = Step("init")

NextTemplate ==
    \/ CheckCooldown
    \/ IncrementCooldown
    \/ Cooldown_gc
    \/ Cooldown_close
    \/ Cooldown_open
    \/ CooldownDisableBucket
    \/ CooldownSetBucket
    \/ Tick
    \/ TryAcquire
    \/ Release
    \/ Concurrency_gc
    \/ Concurrency_close
    \/ Concurrency_open
    \/ ConcurrencyDisableBucket
    \/ ConcurrencySetBucket
    \/ MoveChannel

TemplateSpec == InitTemplate /\ [][NextTemplate]_vars

-----------------------------------------------------------------------------
(* The managers with callers that use the ids "mod" and "other", both         *)
(* materialized from the template, while "default" is configured             *)

InitClone ==
    /\ now = 0
    /\ parent_id = 30
    /\ manager \in {"cooldown", "concurrency"}
    /\ ids = {"mod", "other"}
    /\ targets = {"default"}
    /\ callers = {1, 2}
    /\ cd_buckets = EmptyMap
    /\ cd_template = FlatResource(USER, [limit |-> 2, reset_after |-> 5])
    /\ cd_gc_task = FALSE
    /\ cc_buckets = EmptyMap
    /\ cc_template = FlatResource(USER, [limit |-> 1])
    /\ cc_gc_task = FALSE
    /\ acquiring_ctxs = EmptyMap
    /\ heap = EmptyMap
    /\ limit_obj = ConcurrencyLimit(1)
    /\ res_obj = FlatResource(USER, [limit |-> 1])
    /\ pending = EmptyMap
    /\ cd_accepted = EmptyMap
    /\ unswept = EmptyMap
    /\ cd_window = <<>>
    /\ cd_uses = NoUses(FALSE)
    /\ held = EmptyMap
    /\ disabled = {}
    /\ configured = FALSE
    /\ last = Step("init")

NextClone ==
    \/ CheckCooldown
    \/ IncrementCooldown
    \/ CooldownDisableBucket
    \/ CooldownSetBucket
    \/ TryAcquire
    \/ Release
    \/ ConcurrencyDisableBucket
    \/ ConcurrencySetBucket

CloneSpec == InitClone /\ [][NextClone]_vars

-----------------------------------------------------------------------------
(* The cooldown manager with the history of one key's uses kept *)

InitWindow ==
    /\ now = 0
    /\ parent_id = 30
    /\ manager = "cooldown"
    /\ ids = {"mod"}
    /\ targets = ids
    /\ callers = ContextIds
    /\ cd_buckets = EmptyMap
    /\ cd_template = FlatResource(USER, [limit |-> 2, reset_after |-> 5])
    /\ cd_gc_task = FALSE
    /\ cc_buckets = EmptyMap
    /\ cc_template = FlatResource(USER, [limit |-> 1])
    /\ cc_gc_task = FALSE
    /\ acquiring_ctxs = EmptyMap
    /\ heap = EmptyMap
    /\ limit_obj = ConcurrencyLimit(1)
    /\ res_obj = FlatResource(USER, [limit |-> 1])
    /\ pending = EmptyMap
    /\ cd_accepted = EmptyMap
    /\ unswept = EmptyMap
    /\ cd_window = <<>>
    /\ cd_uses = NoUses(TRUE)
    /\ held = EmptyMap
    /\ disabled = {}
    /\ configured = FALSE
    /\ last = Step("init")

NextWindow ==
    \/ CheckCooldown
    \/ IncrementCooldown
    \/ Cooldown_gc
    \/ Cooldown_close
    \/ Cooldown_open
    \/ CooldownDisableBucket
    \/ CooldownSetBucket
    \/ Tick

WindowSpec == InitWindow /\ [][NextWindow]_vars

-----------------------------------------------------------------------------
(* A bucket resource called directly: _to_bucket(resource, lambda:          *)
(* _ConcurrencyLimit(limit=1)), with contexts of every shape its scope reads *)

\* contexts for MEMBER: two authors in two DM channels, and in guilds one
\* of which has the id of a DM channel
MemberContext(a, g, ch) ==
    [author_id |-> a, guild_id |-> g, channel_id |-> ch, member |-> NoMember,
     cached_channel |-> <<>>, channel_cache |-> <<>>, fetch_channel |-> None]

MemberContexts ==
    {MemberContext(a, None, ch) : a \in {1, 2}, ch \in {10, 11}}
    \cup {MemberContext(1, 10, 10), MemberContext(2, 10, 10), MemberContext(1, 11, 10)}

\* contexts for PARENT_CHANNEL: in a DM or in guild 20, with every answer of
\* the gateway cache (no channel, a channel without or with a parent), of the
\* injected channel cache (none injected, a miss, a channel without or with
\* a parent) and of the fetch
ChannelContext(g, cached, cache, fetched) ==
    [author_id |-> 1, guild_id |-> g, channel_id |-> 11, member |-> NoMember,
     cached_channel |-> cached, channel_cache |-> cache, fetch_channel |-> fetched]

ChannelContexts ==
    {ChannelContext(None, <<>>, <<>>, None)}
    \cup {ChannelContext(20, cached, cache, fetched) :
            cached \in {<<>>, <<None>>, <<30>>},
            cache \in {<<>>, <<[found |-> FALSE, parent_id |-> None]>>,
                       <<[found |-> TRUE, parent_id |-> None]>>,
                       <<[found |-> TRUE, parent_id |-> 31]>>},
            fetched \in {None, 32}}

\* the answers of the role cache for the role ids 20, 40, 41
Hit(id, position) == [tag |-> "hit", id |-> id, position |-> position]
Miss == [tag |-> "miss", id |-> None, position |-> 0]
Absent == [tag |-> "absent", id |-> None, position |-> 0]

\* the roles of the member of the contexts for TOP_ROLE, as fetch_roles
\* returns them: 40 and 41 have the highest position
HeldRoles == <<Role(20, 0), Role(40, 2), Role(41, 2)>>

\* contexts for TOP_ROLE: in a DM or in guild 20; no member, a member with
\* the role of the guild only, or a member with three roles whose locally
\* cached list is empty, complete or partial and whose role cache is not
\* injected or answers each id with the role, a miss or a not-found
RoleContext(g, m) ==
    [author_id |-> 1, guild_id |-> g, channel_id |-> 11, member |-> m,
     cached_channel |-> <<>>, channel_cache |-> <<>>, fetch_channel |-> None]

RoleContexts ==
    {RoleContext(None, NoMember), RoleContext(20, NoMember),
     RoleContext(20, Member(<<20>>, <<Role(20, 0)>>))}
    \cup {RoleContext(20, <<[role_ids |-> <<20, 40, 41>>, get_roles |-> local,
                             role_cache |-> cache, fetch_roles |-> HeldRoles]>>) :
            local \in {<<>>, HeldRoles, <<Role(20, 0)>>},
            cache \in {<<>>,
                       <<<<Hit(20, 0), Hit(40, 2), Hit(41, 2)>>>>,
                       <<<<Hit(20, 0), Miss, Hit(41, 2)>>>>,
                       <<<<Hit(20, 0), Absent, Hit(41, 2)>>>>,
                       <<<<Absent, Absent, Absent>>>>}}

ResourceContexts ==
    IF res_obj.resource = MEMBER THEN MemberContexts
    ELSE IF res_obj.resource = PARENT_CHANNEL THEN ChannelContexts
    ELSE RoleContexts

ResourceStep ==
    /\ manager = "resource"
    /\ UNCHANGED <<env, cd_vars, cc_buckets, cc_template, cc_gc_task, acquiring_ctxs,
                   held, limit_obj, pending, cd_accepted, unswept, disabled, configured>>

\* into_inner(ctx), called directly
Resource_IntoInner ==
    \E ctx \in ResourceContexts :
        LET slot == Slot(res_obj, ctx)
            before == At(res_obj, slot)
            inner == Resource_into_inner(res_obj, ctx, NewId(heap))
        IN /\ ResourceStep
           /\ before = <<>> => Cardinality(DOMAIN heap) < MaxStates
           /\ IF slot.k1 = Raised
              THEN /\ last' = [Step("into_inner") EXCEPT !.slot = slot, !.raised = TRUE,
                                                         !.args = <<ctx>>]
                   /\ UNCHANGED <<res_obj, heap>>
              ELSE /\ res_obj' = inner.self
                   /\ heap' = IF before = <<>>
                              THEN Put(heap, inner.resource,
                                       ConcurrencyLimit(res_obj.make_resource.limit))
                              ELSE heap
                   /\ last' = [Step("into_inner") EXCEPT !.slot = slot, !.before = before,
                                                         !.obj = inner.resource,
                                                         !.args = <<ctx>>]

\* try_into_inner(ctx), called directly
Resource_TryIntoInner ==
    \E ctx \in ResourceContexts :
        LET slot == Slot(res_obj, ctx)
            found == Resource_try_into_inner(res_obj, ctx)
        IN /\ ResourceStep
           /\ last' = [Step("try_into_inner") EXCEPT
                          !.slot = slot, !.before = found,
                          !.obj = IF found = <<>> THEN None ELSE found[1],
                          !.raised = slot.k1 = Raised, !.args = <<ctx>>]
           /\ UNCHANGED <<res_obj, heap>>

\* acquire() on a state that into_inner has returned
Inner_acquire ==
    \E o \in DOMAIN heap :
        /\ ResourceStep
        /\ heap' = Put(heap, o, ConcurrencyLimit_acquire(heap[o]).self)
        /\ last' = [Step("inner.acquire") EXCEPT
                       !.obj = o, !.before = <<heap[o]>>,
                       !.acquired = ConcurrencyLimit_acquire(heap[o]).result]
        /\ UNCHANGED res_obj

\* release() on a state that was acquired
Inner_release ==
    \E o \in DOMAIN heap :
        /\ ResourceStep
        /\ heap[o].counter > 0
        /\ heap' = Put(heap, o, ConcurrencyLimit_release(heap[o]).self)
        /\ last' = [Step("inner.release") EXCEPT !.obj = o, !.before = <<heap[o]>>]
        /\ UNCHANGED res_obj

\* cleanup(), called directly; the states it drops are garbage
Resource_Cleanup ==
    /\ ResourceStep
    /\ res_obj' = Resource_cleanup(res_obj,
                      {o \in Refs(res_obj) : ConcurrencyLimit_has_expired(heap[o])})
    /\ heap' = [o \in DOMAIN heap \cap Refs(res_obj') |-> heap[o]]
    /\ last' = [Step("cleanup") EXCEPT !.args = <<res_obj, heap>>]

InitResource ==
    /\ now = 0
    /\ parent_id = 30
    /\ manager = "resource"
    /\ ids = {}
    /\ targets = {}
    /\ callers = {}
    /\ cd_buckets = EmptyMap
    /\ cd_template = FlatResource(USER, [limit |-> 2, reset_after |-> 5])
    /\ cd_gc_task = FALSE
    /\ cc_buckets = EmptyMap
    /\ cc_template = FlatResource(USER, [limit |-> 1])
    /\ cc_gc_task = FALSE
    /\ acquiring_ctxs = EmptyMap
    /\ heap = EmptyMap
    /\ limit_obj = ConcurrencyLimit(1)
    /\ res_obj = _to_bucket(MEMBER, [limit |-> 1], None)
    /\ pending = EmptyMap
    /\ cd_accepted = EmptyMap
    /\ unswept = EmptyMap
    /\ cd_window = <<>>
    /\ cd_uses = NoUses(FALSE)
    /\ held = EmptyMap
    /\ disabled = {}
    /\ configured = FALSE
    /\ last = Step("init")

NextResource ==
    \/ Resource_IntoInner
    \/ Resource_TryIntoInner
    \/ Inner_acquire
    \/ Inner_release
    \/ Resource_Cleanup

ResourceSpec == InitResource /\ [][NextResource]_vars

\* the same with a bucket of a scope whose key is looked up
InitResolver ==
    /\ now = 0
    /\ parent_id = 30
    /\ manager = "resource"
    /\ ids = {}
    /\ targets = {}
    /\ callers = {}
    /\ cd_buckets = EmptyMap
    /\ cd_template = FlatResource(USER, [limit |-> 2, reset_after |-> 5])
    /\ cd_gc_task = FALSE
    /\ cc_buckets = EmptyMap
    /\ cc_template = FlatResource(USER, [limit |-> 1])
    /\ cc_gc_task = FALSE
    /\ acquiring_ctxs = EmptyMap
    /\ heap = EmptyMap
    /\ limit_obj = ConcurrencyLimit(1)
    /\ res_obj \in {_to_bucket(resource, [limit |-> 1], None) :
                        resource \in {PARENT_CHANNEL, TOP_ROLE}}
    /\ pending = EmptyMap
    /\ cd_accepted = EmptyMap
    /\ unswept = EmptyMap
    /\ cd_window = <<>>
    /\ cd_uses = NoUses(FALSE)
    /\ held = EmptyMap
    /\ disabled = {}
    /\ configured = FALSE
    /\ last = Step("init")

ResolverSpec == InitResolver /\ [][NextResource]_vars

-----------------------------------------------------------------------------
(* The cooldown manager with calls that suspend: after open() and            *)
(* set_bucket("mod", PARENT_CHANNEL, limit, 2)                                *)

InitSuspended ==
    /\ now = 0
    /\ parent_id = 30
    /\ manager = "cooldown"
    /\ ids = {"mod"}
    /\ targets = {}
    /\ callers = {}
    /\ \E limit \in 1..MaxLimit :
          cd_buckets = ("mod" :> FlatResource(PARENT_CHANNEL,
                                              [limit |-> limit, reset_after |-> 2]))
    /\ cd_template = FlatResource(USER, [limit |-> 2, reset_after |-> 5])
    /\ cd_gc_task = TRUE
    /\ cc_buckets = EmptyMap
    /\ cc_template = FlatResource(USER, [limit |-> 1])
    /\ cc_gc_task = FALSE
    /\ acquiring_ctxs = EmptyMap
    /\ heap = EmptyMap
    /\ limit_obj = ConcurrencyLimit(1)
    /\ res_obj = FlatResource(USER, [limit |-> 1])
    /\ pending = EmptyMap
    /\ cd_accepted = EmptyMap
    /\ unswept = EmptyMap
    /\ cd_window = <<>>
    /\ cd_uses = NoUses(FALSE)
    /\ held = EmptyMap
    /\ disabled = {}
    /\ configured = TRUE
    /\ last = Step("init")

NextSuspended ==
    \/ CooldownCallBegin
    \/ CooldownCallResume
    \/ Cooldown_gc
    \/ Tick

SuspendedSpec == InitSuspended /\ [][NextSuspended]_vars

-----------------------------------------------------------------------------
(* The limiter with calls that suspend: after open() and                     *)
(* set_bucket("mod", PARENT_CHANNEL, limit)                                   *)

InitSuspendedAcquire ==
    /\ now = 0
    /\ parent_id = 30
    /\ manager = "concurrency"
    /\ ids = {"mod"}
    /\ targets = {}
    /\ callers = FetchingContextIds
    /\ cd_buckets = EmptyMap
    /\ cd_template = FlatResource(USER, [limit |-> 2, reset_after |-> 5])
    /\ cd_gc_task = FALSE
    /\ \E limit \in 1..MaxLimit :
          cc_buckets = ("mod" :> FlatResource(PARENT_CHANNEL, [limit |-> limit]))
    /\ cc_template = FlatResource(USER, [limit |-> 1])
    /\ cc_gc_task = TRUE
    /\ acquiring_ctxs = EmptyMap
    /\ heap = EmptyMap
    /\ limit_obj = ConcurrencyLimit(1)
    /\ res_obj = FlatResource(USER, [limit |-> 1])
    /\ pending = EmptyMap
    /\ cd_accepted = EmptyMap
    /\ unswept = EmptyMap
    /\ cd_window = <<>>
    /\ cd_uses = NoUses(FALSE)
    /\ held = EmptyMap
    /\ disabled = {}
    /\ configured = TRUE
    /\ last = Step("init")

NextSuspendedAcquire ==
    \/ TryAcquireBegin
    \/ TryAcquireResume
    \/ Release
    \/ Concurrency_gc

SuspendedAcquireSpec == InitSuspendedAcquire /\ [][NextSuspendedAcquire]_vars

-----------------------------------------------------------------------------
(* Either manager beside one that is never swept: after open() and a         *)
(* set_bucket("mod", ...)                                                     *)

InitBeside ==
    /\ now = 0
    /\ parent_id = 30
    /\ manager \in {"cooldown", "concurrency"}
    /\ ids = {"mod"}
    /\ targets = {}
    /\ callers = ContextIds \cup {4}
    /\ \E resource \in {USER, MEMBER, GLOBAL}, limit \in 1..MaxLimit :
          /\ cd_buckets =
                IF manager = "cooldown"
                THEN ("mod" :> _to_bucket(resource, [limit |-> limit, reset_after |-> 1],
                                          Cooldown(limit, 1)))
                ELSE EmptyMap
          /\ cc_buckets =
                IF manager = "concurrency"
                THEN ("mod" :> _to_bucket(resource, [limit |-> limit], 1))
                ELSE EmptyMap
          /\ heap = IF manager = "concurrency" /\ resource = GLOBAL
                    THEN (1 :> ConcurrencyLimit(limit)) ELSE EmptyMap
    /\ cd_template = FlatResource(USER, [limit |-> 2, reset_after |-> 5])
    /\ cd_gc_task = (manager = "cooldown")
    /\ cc_template = FlatResource(USER, [limit |-> 1])
    /\ cc_gc_task = (manager = "concurrency")
    /\ acquiring_ctxs = EmptyMap
    /\ limit_obj = ConcurrencyLimit(1)
    /\ res_obj = FlatResource(USER, [limit |-> 1])
    /\ pending = EmptyMap
    /\ cd_accepted = EmptyMap
    /\ unswept = [cd_buckets |-> cd_buckets, cc_buckets |-> cc_buckets,
                  acquiring_ctxs |-> EmptyMap, heap |-> heap, found |-> FALSE,
                  returned |-> Returned(None, FALSE, FALSE)]
    /\ cd_window = <<>>
    /\ cd_uses = NoUses(FALSE)
    /\ held = EmptyMap
    /\ disabled = {}
    /\ configured = TRUE
    /\ last = Step("init")

NextBeside ==
    \/ CheckCooldownBeside
    \/ IncrementCooldownBeside
    \/ Cooldown_gc
    \/ Tick
    \/ TryAcquireBeside
    \/ ReleaseBeside
    \/ Concurrency_gc

BesideSpec == InitBeside /\ [][NextBeside]_vars

-----------------------------------------------------------------------------
(* Properties of the cooldown manager *)

\* C1: on a bucket of limit N and window T, for a key that had no state, the
\* first N calls of check_cooldown(increment=True) within the window opened by
\* the first of them return None, and the (N+1)th call in that window returns
\* a wait w with 0 < w <= T.
C1_FirstWindow ==
    (/\ last.op = "check_cooldown" /\ last.increment /\ ~last.raised
     /\ Followed(last.bucket_id, last.slot)) =>
        LET N == cd_buckets[last.bucket_id].make_resource.limit
            T == cd_buckets[last.bucket_id].make_resource.reset_after
            calls == cd_window[1].calls
        IN /\ calls <= N => last.wait = None
           /\ calls = N + 1 => (0 < last.wait /\ last.wait <= T)

\* the third call within the first window of a key of a bucket of limit 2 waits
C1_Witness ==
    /\ last.op = "check_cooldown" /\ last.increment
    /\ Followed(last.bucket_id, last.slot)
    /\ cd_buckets[last.bucket_id].make_resource.limit = 2
    /\ cd_window[1].calls = 3
    /\ last.wait > 0

\* C2: when a key of a finite limit is on cooldown (counter = limit) and the
\* window has elapsed (now >= resets_at), check_cooldown(increment=True)
\* returns None and opens a fresh window: counter = 1, resets_at = now + window.
C2_WindowElapsed ==
    (/\ last.op = "check_cooldown" /\ last.increment /\ last.before # <<>>
     /\ last.before[1].limit # -1
     /\ last.before[1].counter = last.before[1].limit
     /\ now >= last.before[1].resets_at) =>
        LET after == At(cd_buckets[last.bucket_id], last.slot)
        IN /\ last.wait = None
           /\ after # <<>>
           /\ after[1].counter = 1
           /\ after[1].resets_at = now + last.before[1].reset_after

\* a key that was blocked at its limit is let through on the tick its window ends
C2_Witness ==
    /\ last.op = "check_cooldown" /\ last.increment /\ last.before # <<>>
    /\ last.before[1].limit = 2 /\ last.before[1].counter = 2
    /\ now = last.before[1].resets_at
    /\ last.wait = None
    /\ At(cd_buckets[last.bucket_id], last.slot)[1].counter = 1

\* C6: check_cooldown(increment=False) changes nothing of the manager (no
\* bucket-map entry, no per-key state, no counter, no resets_at), and returns
\* None when the bucket was never materialized or the key has no state.
C6_PureCheck ==
    [][(last'.op = "check_cooldown" /\ ~last'.increment) =>
          /\ UNCHANGED <<cd_buckets, cd_template, cd_gc_task>>
          /\ (\/ last'.bucket_id \notin DOMAIN cd_buckets
              \/ Resource_try_into_inner(cd_buckets[last'.bucket_id],
                                         Context(last'.ctx)) = <<>>)
               => (last'.wait = None /\ ~last'.raised)]_vars

\* a pure check of a bucket id that is not in the bucket map
C6_Witness ==
    /\ last.op = "check_cooldown" /\ ~last.increment
    /\ last.bucket_id \notin DOMAIN cd_buckets
    /\ last.wait = None

\* C10: while a bucket id is disabled (disable_bucket, and no set_bucket
\* since), every try_acquire on it returns True and every check_cooldown on
\* it, with or without increment, returns None.
C10_Disabled ==
    /\ (last.op = "check_cooldown" /\ last.bucket_id \in disabled)
          => (last.wait = None /\ ~last.raised)
    /\ (last.op = "try_acquire" /\ last.bucket_id \in disabled)
          => (last.acquired /\ ~last.raised)

\* every context holds an acquisition on a disabled bucket
C10_Witness ==
    /\ last.op = "try_acquire" /\ last.bucket_id \in disabled /\ last.acquired
    /\ \A c \in ContextIds : <<last.bucket_id, c>> \in DOMAIN held

-----------------------------------------------------------------------------
(* Properties of the concurrency limiter *)

\* the contexts other than c holding an acquisition of bucket_id whose key
\* resolves to slot
Holders(bucket_id, slot, c) ==
    {d \in ContextIds \ {c} :
        /\ <<bucket_id, d>> \in DOMAIN held
        /\ Slot(cc_buckets[bucket_id], Context(d)) = slot}

\* every acquisition held on bucket_id was made on the state its context's key
\* has in the bucket now: the bucket was not replaced, nor a key moved or
\* swept, under an acquisition
Settled(bucket_id) ==
    \A d \in ContextIds :
        <<bucket_id, d>> \in DOMAIN held =>
            Resource_try_into_inner(cc_buckets[bucket_id], Context(d))
                = <<held[<<bucket_id, d>>]>>

C4_ReleaseFreesSlot ==
    [][(/\ last.op = "release" /\ last.obj # None /\ ~last.raised
        /\ last.obj \in DOMAIN heap
        /\ last.before[1].limit # -1
        /\ last.before[1].counter = last.before[1].limit
        /\ last'.op = "try_acquire"
        /\ last'.bucket_id = last.bucket_id
        /\ last'.ctx # last.ctx
        /\ last'.obj = last.obj) =>
            /\ last'.acquired
            /\ heap'[last.obj].counter = last.before[1].limit]_vars

\* a holder has just released a full state of limit 2 that another context,
\* which holds nothing, resolves to
C4_Witness ==
    /\ last.op = "release" /\ last.obj # None /\ ~last.raised
    /\ last.obj \in DOMAIN heap
    /\ last.before[1].limit = 2 /\ last.before[1].counter = 2
    /\ heap[last.obj].counter = 1
    /\ \E d \in ContextIds \ {last.ctx} :
          /\ <<last.bucket_id, d>> \notin DOMAIN held
          /\ Resource_try_into_inner(cc_buckets[last.bucket_id], Context(d))
                = <<last.obj>>

\* C5: a try_acquire by a pair (bucket_id, ctx) that holds an acquisition
\* returns True and leaves every counter, the bucket map and the ledger as
\* they were.
C5_Idempotent ==
    [][(/\ last'.op = "try_acquire"
        /\ <<last'.bucket_id, last'.ctx>> \in DOMAIN held) =>
            /\ last'.acquired /\ ~last'.raised
            /\ UNCHANGED <<heap, acquiring_ctxs, cc_buckets>>]_vars

\* a second try_acquire by the holder of a full state
C5_Witness ==
    /\ last.op = "try_acquire" /\ last.obj = None /\ last.acquired
    /\ <<last.bucket_id, last.ctx>> \in DOMAIN held
    /\ heap[held[<<last.bucket_id, last.ctx>>]].counter
          = heap[held[<<last.bucket_id, last.ctx>>]].limit

\* C7: a release by a pair (bucket_id, ctx) that holds no acquisition raises
\* nothing and leaves every counter, the bucket map, the template and the
\* ledger as they were.
C7_ReleaseWithoutEntry ==
    [][(/\ last'.op = "release"
        /\ <<last'.bucket_id, last'.ctx>> \notin DOMAIN held) =>
            /\ ~last'.raised
            /\ UNCHANGED <<heap, cc_buckets, cc_template, acquiring_ctxs>>]_vars

\* a release by a context that holds nothing, on a bucket where its key's
\* state is held by another
C7_Witness ==
    /\ last.op = "release" /\ last.obj = None /\ ~last.raised
    /\ last.bucket_id \in DOMAIN cc_buckets
    /\ \E o \in Range(Resource_try_into_inner(cc_buckets[last.bucket_id],
                                              Context(last.ctx))) :
          heap[o].counter > 0

\* C8: a release by a holder gives back one acquisition on the state its
\* try_acquire was counted on (nothing when that state is unlimited) and
\* changes no other state nor the bucket map, whatever the context's key
\* resolves to at the time of the release.
C8_ReleaseRecordedState ==
    [][(/\ last'.op = "release"
        /\ <<last'.bucket_id, last'.ctx>> \in DOMAIN held) =>
            LET o == held[<<last'.bucket_id, last'.ctx>>]
            IN /\ ~last'.raised
               /\ last'.obj = o
               /\ DOMAIN heap' \subseteq DOMAIN heap
               /\ \A p \in DOMAIN heap' :
                     heap'[p] = IF p = o /\ heap[o].limit # -1
                                THEN [heap[o] EXCEPT !.counter = @ - 1]
                                ELSE heap[p]
               /\ UNCHANGED cc_buckets]_vars

\* a release that gave back on a state other than the one the context's key
\* has in the bucket at the time of the release
C8_Witness ==
    /\ last.op = "release" /\ last.obj # None /\ ~last.raised
    /\ last.obj \in DOMAIN heap
    /\ heap[last.obj].counter = last.before[1].counter - 1
    /\ \E o \in Range(Resource_try_into_inner(cc_buckets[last.bucket_id],
                                              Context(last.ctx))) :
          o # last.obj /\ heap[o].counter > 0

\* C9: _ConcurrencyLimit.release() takes one from a counter > 0; at counter 0
\* it does nothing when the limit is -1, and raises, the counter staying 0,
\* when the limit is finite.
C9_LimitRelease ==
    last.op = "limit.release" =>
        LET self == last.before[1]
        IN /\ self.counter > 0 =>
                (~last.raised /\ limit_obj = [self EXCEPT !.counter = @ - 1])
           /\ (self.counter = 0 /\ self.limit = -1) =>
                (~last.raised /\ limit_obj = self)
           /\ (self.counter = 0 /\ self.limit # -1) =>
                (last.raised /\ limit_obj = self)

\* a release of a finite limit that nothing holds has raised
C9_Witness ==
    /\ last.op = "limit.release" /\ last.raised
    /\ last.before[1].counter = 0 /\ last.before[1].limit # -1

-----------------------------------------------------------------------------
(* Properties of the bucket map and of the default template *)

\* what a bucket was built with: its topology, scope and factory arguments
Config(bucket) == <<bucket.kind, bucket.resource, bucket.make_resource>>

\* C11: an unknown bucket id is materialized by its first incrementing or
\* acquiring use as a clone of the default template of that moment; a
\* set_bucket or disable_bucket of "default" sets the template that later
\* materializations clone and leaves every other id's bucket, with its scope,
\* limit, window and states, as it was.
C11_TemplateClone ==
    [][/\ (last'.op \in {"check_cooldown", "increment_cooldown"}) =>
             \A b \in DOMAIN cd_buckets' \ DOMAIN cd_buckets :
                 /\ b = last'.bucket_id
                 /\ Config(cd_buckets'[b]) = Config(cd_template)
       /\ (last'.op = "try_acquire") =>
             \A b \in DOMAIN cc_buckets' \ DOMAIN cc_buckets :
                 /\ b = last'.bucket_id
                 /\ Config(cc_buckets'[b]) = Config(cc_template)
       /\ (/\ last'.op \in {"set_bucket", "disable_bucket"} /\ ~last'.raised
           /\ last'.bucket_id = "default") =>
             /\ \A b \in DOMAIN cd_buckets \ {"default"} : cd_buckets'[b] = cd_buckets[b]
             /\ \A b \in DOMAIN cc_buckets \ {"default"} :
                   /\ cc_buckets'[b] = cc_buckets[b]
                   /\ \A o \in Refs(cc_buckets[b]) : heap'[o] = heap[o]
             /\ manager = "cooldown" =>
                   Config(cd_template') = Config(cd_buckets'["default"])
             /\ manager = "concurrency" =>
                   Config(cc_template') = Config(cc_buckets'["default"])]_vars

\* "default" has just been configured; "mod", materialized and used before
\* that, keeps the configuration it was cloned with
C11_Witness ==
    /\ last.op = "set_bucket" /\ ~last.raised /\ last.bucket_id = "default"
    /\ "mod" \in DOMAIN cd_buckets
    /\ cd_buckets["mod"].mapping # EmptyMap
    /\ Config(cd_buckets["mod"]) # Config(cd_template)
    /\ Config(cd_buckets["default"]) = Config(cd_template)

\* the slots of bucket that hold a state
Slots(bucket) ==
    {[at |-> "flat", k1 |-> k, k2 |-> None] : k \in DOMAIN bucket.mapping}
    \cup {[at |-> "dm", k1 |-> k, k2 |-> None] : k \in DOMAIN bucket.dm_fallback}
    \cup UNION {{[at |-> "guild", k1 |-> g, k2 |-> u] :
                    u \in DOMAIN bucket.guild_mapping[g]} :
                 g \in DOMAIN bucket.guild_mapping}
    \cup {[at |-> "global", k1 |-> None, k2 |-> None] : o \in Range(bucket.bucket)}

\* the keys of bucket other than the key of c: the slots that hold a state or
\* that a context resolves to, but for the slot of c
OtherSlots(bucket, c) ==
    (Slots(bucket) \cup {Slot(bucket, Context(d)) : d \in ContextIds})
        \ {Slot(bucket, Context(c))}

\* C12: within one bucket, a check_cooldown or increment_cooldown for a context
\* of key K1 leaves the state (counter, resets_at) of every other key K2 as it
\* was, and so does a try_acquire, and a release by a context whose key still
\* resolves to the state it acquired on.
C12_KeyIsolation ==
    [][/\ (/\ last'.op \in {"check_cooldown", "increment_cooldown"}
           /\ last'.bucket_id \in DOMAIN cd_buckets') =>
             \A slot \in OtherSlots(cd_buckets'[last'.bucket_id], last'.ctx) :
                 At(cd_buckets'[last'.bucket_id], slot)
                   = IF last'.bucket_id \in DOMAIN cd_buckets
                     THEN At(cd_buckets[last'.bucket_id], slot) ELSE <<>>
       /\ (/\ last'.op \in {"try_acquire", "release"}
           /\ last'.bucket_id \in DOMAIN cc_buckets'
           /\ (last'.op = "release"
                 /\ <<last'.bucket_id, last'.ctx>> \in DOMAIN held) =>
                 Resource_try_into_inner(cc_buckets[last'.bucket_id],
                                         Context(last'.ctx))
                     = <<held[<<last'.bucket_id, last'.ctx>>]>>) =>
             \A slot \in OtherSlots(cc_buckets'[last'.bucket_id], last'.ctx) :
                 LET after == At(cc_buckets'[last'.bucket_id], slot)
                     before == IF last'.bucket_id \in DOMAIN cc_buckets
                               THEN At(cc_buckets[last'.bucket_id], slot) ELSE <<>>
                 IN /\ after = before
                    /\ \A o \in Range(after) : heap'[o] = heap[o]]_vars

\* a key of a bucket of limit 2 has just been refused while another key of
\* the bucket stands at one use
C12_Witness ==
    /\ last.op = "check_cooldown" /\ last.increment /\ last.wait # None
    /\ cd_buckets[last.bucket_id].make_resource.limit = 2
    /\ \E slot \in OtherSlots(cd_buckets[last.bucket_id], last.ctx) :
          /\ At(cd_buckets[last.bucket_id], slot) # <<>>
          /\ At(cd_buckets[last.bucket_id], slot)[1].counter = 1

\* C12 as stated: a release, too, changes no state but the one at the key its
\* context resolves to when release is called.
C12_AsStated ==
    [][(/\ last'.op \in {"try_acquire", "release"}
        /\ last'.bucket_id \in DOMAIN cc_buckets') =>
             \A slot \in OtherSlots(cc_buckets'[last'.bucket_id], last'.ctx) :
                 LET after == At(cc_buckets'[last'.bucket_id], slot)
                     before == IF last'.bucket_id \in DOMAIN cc_buckets
                               THEN At(cc_buckets[last'.bucket_id], slot) ELSE <<>>
                 IN /\ after = before
                    /\ \A o \in Range(after) : heap'[o] = heap[o]]_vars

\* C13: a sweep of the cooldown manager removes the state of a key only if
\* now >= resets_at for it at the time of the sweep: a state whose window has
\* not elapsed, at or below its limit, stays as it is, and no sweep adds or
\* changes a state or removes a bucket.
C13_SweepOnlyElapsed ==
    [][(last'.op = "gc" /\ manager = "cooldown") =>
          \A b \in DOMAIN cd_buckets :
              /\ b \in DOMAIN cd_buckets'
              /\ Slots(cd_buckets'[b]) \subseteq Slots(cd_buckets[b])
              /\ \A slot \in Slots(cd_buckets'[b]) :
                    At(cd_buckets'[b], slot) = At(cd_buckets[b], slot)
              /\ \A slot \in Slots(cd_buckets[b]) \ Slots(cd_buckets'[b]) :
                    now >= At(cd_buckets[b], slot)[1].resets_at]_vars

\* a sweep has left in place a state below its limit whose window has not elapsed
C13_Witness ==
    /\ last.op = "gc" /\ manager = "cooldown" /\ now > 0
    /\ \E b \in DOMAIN cd_buckets : \E slot \in Slots(cd_buckets[b]) :
          LET state == At(cd_buckets[b], slot)[1]
          IN /\ state.limit # -1 /\ state.counter < state.limit
             /\ now < state.resets_at

\* the sweep task of the manager under test is running
gc_task == IF manager = "cooldown" THEN cd_gc_task ELSE cc_gc_task

\* C14: for both managers, open() while the sweep task runs raises and changes
\* nothing; close() while no sweep task runs raises and changes nothing;
\* open() with no sweep task (at first, or after a close()) and close() with
\* one succeed and start or stop it; a sweep happens only while the task runs.
C14_Lifecycle ==
    [][/\ last'.op = "open" =>
             IF gc_task
             THEN last'.raised /\ UNCHANGED <<env, cd_vars, cc_vars>>
             ELSE ~last'.raised /\ gc_task'
                  /\ UNCHANGED <<cd_buckets, cd_template, cc_buckets, cc_template,
                                 acquiring_ctxs, heap>>
       /\ last'.op = "close" =>
             IF ~gc_task
             THEN last'.raised /\ UNCHANGED <<env, cd_vars, cc_vars>>
             ELSE ~last'.raised /\ ~gc_task'
                  /\ UNCHANGED <<cd_buckets, cd_template, cc_buckets, cc_template,
                                 acquiring_ctxs, heap>>
       /\ last'.op = "gc" => gc_task /\ gc_task'
       /\ last'.op \notin {"open", "close"} => UNCHANGED <<cd_gc_task, cc_gc_task>>]_vars

\* open() has raised on a manager whose sweep task runs and whose buckets
\* hold states
C14_Witness ==
    /\ last.op = "open" /\ last.raised /\ gc_task
    /\ \E b \in DOMAIN cd_buckets : Slots(cd_buckets[b]) # {}

\* C15: set_bucket with limit <= 0, with reset_after <= 0 (cooldown manager)
\* or with a resource that is no member of BucketResource raises, and leaves
\* the bucket map, every state and the default template as they were, for
\* "default" as for any other id; with valid arguments it does not raise.
C15_RejectedSetBucket ==
    [][last'.op = "set_bucket" =>
          LET resource == last'.args[1]
              limit == last'.args[2]
              invalid == \/ limit <= 0
                         \/ resource \notin BucketResource
                         \/ manager = "cooldown" /\ last'.args[3] <= 0
          IN /\ last'.raised <=> invalid
             /\ invalid => UNCHANGED <<cd_buckets, cd_template, cd_gc_task,
                                       cc_buckets, cc_template, cc_gc_task,
                                       acquiring_ctxs, heap>>]_vars

\* set_bucket("default", 4, 1) has raised on a limiter that holds an acquisition
C15_Witness ==
    /\ last.op = "set_bucket" /\ last.raised /\ last.bucket_id = "default"
    /\ last.args = <<4, 1>>
    /\ DOMAIN acquiring_ctxs # {}
    /\ Config(cc_template) = Config(FlatResource(USER, [limit |-> 1]))

\* what must hold of the bucket of an id before and after a step for it to be
\* the same Bucket object: a Bucket never changes its topology, scope or
\* factory, and loses the state of a key only in a sweep
SameBucket(before, after, swept) ==
    /\ Config(after) = Config(before)
    /\ ~swept => Slots(before) \subseteq Slots(after)

\* C16 as stated: once a bucket id is in a manager's bucket map, no operation,
\* set_bucket and disable_bucket included, removes it or makes it map to
\* another Bucket.
C16_OneBucketPerId ==
    [][/\ \A b \in DOMAIN cd_buckets :
             /\ b \in DOMAIN cd_buckets'
             /\ SameBucket(cd_buckets[b], cd_buckets'[b], last'.op = "gc")
       /\ \A b \in DOMAIN cc_buckets :
             /\ b \in DOMAIN cc_buckets'
             /\ SameBucket(cc_buckets[b], cc_buckets'[b], last'.op = "gc")]_vars

\* C16, amended: once a bucket id is in a manager's bucket map no operation
\* removes it, and none but a successful set_bucket or disable_bucket of that
\* id makes it map to another Bucket.
C16_ButForConfiguration ==
    [][/\ \A b \in DOMAIN cd_buckets :
             /\ b \in DOMAIN cd_buckets'
             /\ \/ SameBucket(cd_buckets[b], cd_buckets'[b], last'.op = "gc")
                \/ /\ last'.op \in {"set_bucket", "disable_bucket"}
                   /\ ~last'.raised /\ last'.bucket_id = b
       /\ \A b \in DOMAIN cc_buckets :
             /\ b \in DOMAIN cc_buckets'
             /\ \/ SameBucket(cc_buckets[b], cc_buckets'[b], last'.op = "gc")
                \/ /\ last'.op \in {"set_bucket", "disable_bucket"}
                   /\ ~last'.raised /\ last'.bucket_id = b]_vars

\* a sweep has emptied a bucket materialized from the template, and the
\* bucket is still in the map
C16_Witness ==
    /\ last.op = "gc" /\ ~configured
    /\ \E b \in DOMAIN cc_buckets : Slots(cc_buckets[b]) = {}

\* the cooldown state at slot of bucket b is no longer in the bucket map
\* after the step
CooldownRemoved(b, slot) ==
    \/ b \notin DOMAIN cd_buckets'
    \/ Config(cd_buckets'[b]) # Config(cd_buckets[b])
    \/ At(cd_buckets'[b], slot) = <<>>

\* the _ConcurrencyLimit o of bucket b is no longer in the bucket map after
\* the step
ConcurrencyRemoved(b, o) ==
    \/ b \notin DOMAIN cc_buckets'
    \/ o \notin Refs(cc_buckets'[b])

\* C17 as stated: a per-key state leaves its manager's bucket map only in a
\* sweep that finds it expired (cooldown: now >= resets_at) or idle
\* (concurrency: counter = 0, hence in no ledger entry).
C17_RemovedOnlyBySweep ==
    [][/\ \A b \in DOMAIN cd_buckets : \A slot \in Slots(cd_buckets[b]) :
             CooldownRemoved(b, slot) =>
                 /\ last'.op = "gc"
                 /\ now >= At(cd_buckets[b], slot)[1].resets_at
       /\ \A b \in DOMAIN cc_buckets : \A o \in Refs(cc_buckets[b]) :
             ConcurrencyRemoved(b, o) =>
                 /\ last'.op = "gc"
                 /\ heap[o].counter = 0
                 /\ o \notin Range(acquiring_ctxs)]_vars

\* C17, amended: a per-key state leaves its manager's bucket map only in a
\* sweep that finds it expired or idle, or when a successful set_bucket or
\* disable_bucket replaces the bucket it is in.
C17_RemovedBySweepOrConfiguration ==
    [][/\ \A b \in DOMAIN cd_buckets : \A slot \in Slots(cd_buckets[b]) :
             CooldownRemoved(b, slot) =>
                 \/ /\ last'.op = "gc"
                    /\ now >= At(cd_buckets[b], slot)[1].resets_at
                 \/ /\ last'.op \in {"set_bucket", "disable_bucket"}
                    /\ ~last'.raised /\ last'.bucket_id = b
       /\ \A b \in DOMAIN cc_buckets : \A o \in Refs(cc_buckets[b]) :
             ConcurrencyRemoved(b, o) =>
                 \/ /\ last'.op = "gc"
                    /\ heap[o].counter = 0
                    /\ o \notin Range(acquiring_ctxs)
                 \/ /\ last'.op \in {"set_bucket", "disable_bucket"}
                    /\ ~last'.raised /\ last'.bucket_id = b]_vars

\* a sweep has left a held state of a bucket of limit 2 in place
C17_Witness ==
    /\ last.op = "gc" /\ manager = "concurrency"
    /\ \E b \in DOMAIN cc_buckets : \E o \in Refs(cc_buckets[b]) :
          /\ heap[o].limit = 2 /\ heap[o].counter = 1
          /\ o \in Range(acquiring_ctxs)

-----------------------------------------------------------------------------
(* Properties of the counters *)

\* 0 <= counter <= limit, or limit = -1 and counter = 0
WithinLimit(state) ==
    IF state.limit = -1 THEN state.counter = 0
    ELSE 0 <= state.counter /\ state.counter <= state.limit

\* C18: every cooldown state and every concurrency state has
\* 0 <= counter <= limit when its limit is not -1, and counter = 0 when it is.
C18_CounterWithinLimit ==
    /\ \A b \in DOMAIN cd_buckets : \A state \in Refs(cd_buckets[b]) : WithinLimit(state)
    /\ \A state \in Refs(cd_template) : WithinLimit(state)
    /\ \A o \in DOMAIN heap : WithinLimit(heap[o])
    /\ WithinLimit(limit_obj)

\* increment_cooldown has been called on a state that stood at its limit of 2
C18_Witness ==
    /\ last.op = "increment_cooldown" /\ last.before # <<>>
    /\ last.before[1].limit = 2 /\ last.before[1].counter = 2
    /\ At(cd_buckets[last.bucket_id], last.slot)[1].counter = 2

\* C20: a check_cooldown(increment=True) that returns a wait leaves the key's
\* state (counter, resets_at) as it was, and so does an increment_cooldown on
\* a state at its limit whose window has not elapsed.
C20_RejectedUseChangesNothing ==
    /\ (last.op = "check_cooldown" /\ last.increment /\ last.wait # None) =>
          /\ last.before # <<>>
          /\ At(cd_buckets[last.bucket_id], last.slot) = last.before
    /\ (/\ last.op = "increment_cooldown" /\ last.before # <<>>
        /\ last.before[1].counter = last.before[1].limit
        /\ now < last.before[1].resets_at) =>
          At(cd_buckets[last.bucket_id], last.slot) = last.before

\* a check has returned a wait of 1 on a state at its limit
C20_Witness ==
    /\ last.op = "check_cooldown" /\ last.increment /\ last.wait = 1
    /\ last.before # <<>>
    /\ last.before[1].counter = last.before[1].limit

-----------------------------------------------------------------------------
(* Properties of the cooldown window *)

\* the bucket whose key the history follows has a finite limit
UsesOfFiniteBucket ==
    /\ cd_uses.on
    /\ \E b \in ids : b \in DOMAIN cd_buckets /\ cd_buckets[b].make_resource.limit # -1

UsesBucket == cd_buckets[CHOOSE b \in ids : b \in DOMAIN cd_buckets]

\* C19 as stated: in every interval of length T, wherever it starts, at most N
\* check_cooldown(increment=True) calls for one key return None: N + 1
\* accepted calls never lie less than T apart.
C19_RollingWindow ==
    UsesOfFiniteBucket =>
        LET N == UsesBucket.make_resource.limit
            T == UsesBucket.make_resource.reset_after
            times == cd_uses.times
        IN Len(times) = N + 1 => times[N + 1] - times[1] >= T

\* C19, amended: in every interval of length T that starts at the use that
\* opens a window of the key, at most N check_cooldown(increment=True) calls
\* for the key return None.
C19_FixedWindow ==
    UsesOfFiniteBucket => cd_uses.count <= UsesBucket.make_resource.limit

\* N + 1 calls were accepted less than T apart, N of them in the current window
C19_Witness ==
    /\ UsesOfFiniteBucket
    /\ last.op = "check_cooldown" /\ last.increment /\ last.wait = None
    /\ Len(cd_uses.times) = UsesBucket.make_resource.limit + 1
    /\ cd_uses.times[Len(cd_uses.times)] - cd_uses.times[1]
          < UsesBucket.make_resource.reset_after
    /\ cd_uses.count = UsesBucket.make_resource.limit

-----------------------------------------------------------------------------
(* Properties of the ledger of the concurrency limiter *)

\* the ledger entries that record the state o
Entries(o) == {k \in DOMAIN acquiring_ctxs : acquiring_ctxs[k] = o}

\* the ledger entries of bucket_id whose contexts resolve to slot now
EntriesAt(bucket_id, slot) ==
    {k \in DOMAIN acquiring_ctxs :
        k[1] = bucket_id /\ Slot(cc_buckets[bucket_id], Context(k[2])) = slot}

\* C23 as stated: the ledger entries of one bucket id whose contexts resolve
\* to the same key never outnumber the finite limit the bucket id has now.
C23_LimitAcrossReconfiguration ==
    \A b \in DOMAIN cc_buckets :
        cc_buckets[b].make_resource.limit # -1 =>
            \A c \in ContextIds :
                Cardinality(EntriesAt(b, Slot(cc_buckets[b], Context(c))))
                    <= cc_buckets[b].make_resource.limit

\* C23, amended: the ledger entries that record one state never outnumber
\* that state's finite limit, and every state a bucket holds has the limit
\* the bucket was last configured with; acquisitions made on the states of a
\* bucket that set_bucket has replaced are not counted on the new bucket.
C23_LimitPerState ==
    /\ \A o \in DOMAIN heap :
          heap[o].limit # -1 => Cardinality(Entries(o)) <= heap[o].limit
    /\ \A b \in DOMAIN cc_buckets : \A o \in Refs(cc_buckets[b]) :
          heap[o].limit = cc_buckets[b].make_resource.limit

\* after a set_bucket, two contexts of one key hold an acquisition of a
\* bucket id of limit 1: one on the state of the replaced bucket, one on the
\* state of the bucket in the map
C23_Witness ==
    \E b \in DOMAIN cc_buckets :
        /\ cc_buckets[b].make_resource.limit = 1
        /\ configured
        /\ \E k1, k2 \in EntriesAt(b, Slot(cc_buckets[b], Context(2))) :
              /\ acquiring_ctxs[k1] \notin Refs(cc_buckets[b])
              /\ acquiring_ctxs[k2] \in Refs(cc_buckets[b])
              /\ heap[acquiring_ctxs[k1]].counter = 1
              /\ heap[acquiring_ctxs[k2]].counter = 1

\* C24: release never raises the release-without-acquire error: every ledger
\* entry records a live state with counter > 0 or limit -1, every bucket id
\* of a ledger key is in the bucket map, and no release has raised.
C24_ReleaseNeverRaises ==
    /\ \A k \in DOMAIN acquiring_ctxs :
          /\ acquiring_ctxs[k] \in DOMAIN heap
          /\ heap[acquiring_ctxs[k]].counter > 0 \/ heap[acquiring_ctxs[k]].limit = -1
          /\ k[1] \in DOMAIN cc_buckets
    /\ last.op = "release" => ~last.raised

\* a holder has released the last acquisition of a state that a set_bucket
\* had taken out of the bucket map
C24_Witness ==
    /\ last.op = "release" /\ last.obj # None /\ ~last.raised
    /\ configured
    /\ last.before[1].limit # -1 /\ last.before[1].counter = 1
    /\ last.obj \notin DOMAIN heap
    /\ acquiring_ctxs # EmptyMap

-----------------------------------------------------------------------------
(* Properties of the buckets cloned from the template *)

\* no two buckets of the limiter, nor a bucket and the template, hold one state
NoSharedState ==
    /\ \A a, b \in DOMAIN cc_buckets :
          a # b => Refs(cc_buckets[a]) \cap Refs(cc_buckets[b]) = {}
    /\ \A b \in DOMAIN cc_buckets : Refs(cc_buckets[b]) \cap Refs(cc_template) = {}

\* C27: a bucket materialized from the template starts with no per-key state
\* (after the call that materializes it, it holds nothing but the state of
\* that call's key, used once) and shares no state with the bucket stored
\* under "default", with the template or with another materialized bucket; a
\* use through one bucket id leaves the buckets of the other ids, their
\* states and the template as they were.
C27_CloneIndependence ==
    [][/\ (last'.op \in {"check_cooldown", "increment_cooldown"}) =>
             /\ \A b \in DOMAIN cd_buckets' \ DOMAIN cd_buckets :
                   /\ b = last'.bucket_id
                   /\ Slots(cd_buckets'[b]) \subseteq {Slot(cd_buckets'[b], Context(last'.ctx))}
                   /\ \A state \in Refs(cd_buckets'[b]) : state.counter <= 1
             /\ \A b \in DOMAIN cd_buckets :
                   b # last'.bucket_id => cd_buckets'[b] = cd_buckets[b]
             /\ cd_template' = cd_template
       /\ (last'.op \in {"try_acquire", "release"}) =>
             /\ \A b \in DOMAIN cc_buckets' \ DOMAIN cc_buckets :
                   /\ b = last'.bucket_id
                   /\ Slots(cc_buckets'[b]) \subseteq {Slot(cc_buckets'[b], Context(last'.ctx))}
                   /\ Refs(cc_buckets'[b]) \cap DOMAIN heap = {}
                   /\ \A o \in Refs(cc_buckets'[b]) : heap'[o].counter <= 1
             /\ \A b \in DOMAIN cc_buckets :
                   b # last'.bucket_id =>
                       /\ cc_buckets'[b] = cc_buckets[b]
                       /\ \A o \in Refs(cc_buckets[b]) : heap'[o] = heap[o]
             /\ cc_template' = cc_template
             /\ \A o \in Refs(cc_template) : heap'[o] = heap[o]
       /\ NoSharedState']_vars

\* "mod" and "other" were both cloned from a GLOBAL template of limit 1, and
\* each has granted one acquisition on a singleton of its own
C27_Witness ==
    /\ {"mod", "other"} \subseteq DOMAIN cc_buckets
    /\ cc_template.kind = "global" /\ cc_template.make_resource.limit = 1
    /\ cc_buckets["mod"].kind = "global" /\ cc_buckets["other"].kind = "global"
    /\ last.op = "try_acquire" /\ last.bucket_id = "other" /\ last.acquired
    /\ cc_buckets["mod"].bucket # cc_buckets["other"].bucket
    /\ heap[cc_buckets["mod"].bucket[1]].counter = 1
    /\ heap[cc_buckets["other"].bucket[1]].counter = 1

-----------------------------------------------------------------------------
(* Properties of the bucket resources *)

\* C26: in a MEMBER bucket two contexts in a guild have the same state iff
\* they have the same guild id and the same author id, two contexts without
\* a guild iff they have the same channel id, whatever their authors, and a
\* context in a guild never has the state of a context without one.
C26_MemberKeying ==
    res_obj.kind = "member" =>
        \A a, b \in MemberContexts :
            LET sa == Resource_try_into_inner(res_obj, a)
                sb == Resource_try_into_inner(res_obj, b)
            IN (sa # <<>> /\ sb # <<>>) =>
                 (sa = sb <=>
                    IF a.guild_id # None /\ b.guild_id # None
                    THEN a.guild_id = b.guild_id /\ a.author_id = b.author_id
                    ELSE IF a.guild_id = None /\ b.guild_id = None
                    THEN a.channel_id = b.channel_id
                    ELSE FALSE)

\* the DM channel 10 and guild 10, for both authors, have a state, and
\* into_inner has just returned the state of DM channel 10 for another author
C26_Witness ==
    /\ res_obj.kind = "member"
    /\ DOMAIN res_obj.dm_fallback = {10}
    /\ DOMAIN res_obj.guild_mapping = {10}
    /\ DOMAIN res_obj.guild_mapping[10] = {1, 2}
    /\ last.op = "into_inner" /\ last.before # <<>> /\ last.slot.at = "dm"
    /\ last.args[1].author_id = 2
    /\ last.obj = res_obj.dm_fallback[10]

\* the key for a channel: its parent id or, without a parent, the guild id
ParentOrGuild(ctx, parent) == IF parent # None THEN parent ELSE ctx.guild_id

\* C28: PARENT_CHANNEL key resolution tries its sources in a fixed order and
\* stops at the first hit: without a guild the key is the channel id and
\* nothing is looked up; else the locally cached channel; else the injected
\* channel cache, whose miss is no error; else a fetch; the key is the parent
\* id of the channel found or, if it has none, the guild id.
C28_ParentChannelOrder ==
    (last.op = "into_inner" /\ res_obj.resource = PARENT_CHANNEL) =>
        LET ctx == last.args[1]
            key == last.slot.k1
            calls == _get_ctx_target_calls(ctx, PARENT_CHANNEL)
        IN /\ ~last.raised
           /\ res_obj.mapping[key] = last.obj
           /\ IF ctx.guild_id = None
              THEN key = ctx.channel_id /\ calls = <<>>
              ELSE IF ctx.cached_channel # <<>>
              THEN /\ key = ParentOrGuild(ctx, ctx.cached_channel[1])
                   /\ calls = <<"get_channel">>
              ELSE IF ctx.channel_cache # <<>> /\ ctx.channel_cache[1].found
              THEN /\ key = ParentOrGuild(ctx, ctx.channel_cache[1].parent_id)
                   /\ calls = <<"get_channel", "channel_cache.get">>
              ELSE /\ key = ParentOrGuild(ctx, ctx.fetch_channel)
                   /\ calls \in {<<"get_channel", "fetch_channel">>,
                                 <<"get_channel", "channel_cache.get", "fetch_channel">>}

\* into_inner has resolved a guild context with no locally cached channel,
\* whose injected cache missed, by the parent id of the fetched channel
C28_Witness ==
    /\ last.op = "into_inner" /\ res_obj.resource = PARENT_CHANNEL
    /\ last.args[1].guild_id = 20
    /\ last.args[1].cached_channel = <<>>
    /\ last.args[1].channel_cache # <<>> /\ ~last.args[1].channel_cache[1].found
    /\ last.slot.k1 = 32 /\ ~last.raised
    /\ res_obj.mapping[32] = last.obj

\* C29 as stated: TOP_ROLE key resolution gives the channel id without a
\* guild, the guild id without a member or with at most one held role id,
\* and otherwise the id of the role of highest position among the roles the
\* member holds, the first of them on a tie, never an error; a miss of the
\* role cache leads to the fetch of the member's roles.
C29_TopRole ==
    (last.op = "into_inner" /\ res_obj.resource = TOP_ROLE) =>
        LET ctx == last.args[1]
            key == last.slot.k1
            calls == _get_ctx_target_calls(ctx, TOP_ROLE)
        IN IF ctx.guild_id = None THEN key = ctx.channel_id
           ELSE IF ctx.member = <<>> \/ Len(ctx.member[1].role_ids) <= 1
           THEN key = ctx.guild_id
           ELSE /\ ~last.raised
                /\ key = TopRole(ctx.member[1].fetch_roles).id
                /\ (/\ ctx.member[1].get_roles = <<>>
                    /\ ctx.member[1].role_cache # <<>>
                    /\ RolesFromCache(ctx.member[1].role_cache[1]).missed) =>
                       calls = <<"get_roles", "role_cache.get", "fetch_roles">>

\* C30: no per-guild submap of a MEMBER bucket is ever empty: into_inner
\* creates a submap with its first entry, and a cleanup() that removes the
\* last entry of a submap removes the submap; cleanup() removes the expired
\* entries of the DM fallback map and of the submaps, and no others.
C30_NoEmptySubmap ==
    [][/\ \A g \in DOMAIN res_obj'.guild_mapping : DOMAIN res_obj'.guild_mapping[g] # {}
       /\ last'.op = "cleanup" =>
             /\ DOMAIN res_obj'.dm_fallback =
                   {k \in DOMAIN res_obj.dm_fallback :
                       ~ConcurrencyLimit_has_expired(heap[res_obj.dm_fallback[k]])}
             /\ \A g \in DOMAIN res_obj.guild_mapping :
                   LET kept == {u \in DOMAIN res_obj.guild_mapping[g] :
                                  ~ConcurrencyLimit_has_expired(heap[res_obj.guild_mapping[g][u]])}
                   IN IF kept = {} THEN g \notin DOMAIN res_obj'.guild_mapping
                      ELSE /\ g \in DOMAIN res_obj'.guild_mapping
                           /\ DOMAIN res_obj'.guild_mapping[g] = kept]_vars

\* a cleanup() has removed the submap of a guild with its last entry and has
\* kept a submap it took an entry from
C30_Witness ==
    /\ last.op = "cleanup"
    /\ \E g \in DOMAIN last.args[1].guild_mapping : g \notin DOMAIN res_obj.guild_mapping
    /\ \E g \in DOMAIN res_obj.guild_mapping :
          DOMAIN res_obj.guild_mapping[g] # DOMAIN last.args[1].guild_mapping[g]

-----------------------------------------------------------------------------
(* Properties of the calls that suspend *)

\* C21: check_cooldown(increment=True) tests and increments in one step:
\* however the calls for one bucket and key that suspend in key resolution
\* interleave, with each other, with increment_cooldown, with sweeps and
\* with the passing of time, at most limit of the calls made in one window
\* of the key return None.
C21_AtomicCheckAndIncrement ==
    \A k \in DOMAIN cd_accepted :
        cd_accepted[k].count <= cd_buckets[k[1]].make_resource.limit

\* a call has returned None as the last one its window admits while another
\* call for the same bucket and key, begun before, is still suspended
C21_Witness ==
    /\ last.op = "check_cooldown" /\ last.increment /\ last.wait = None
    /\ \E t \in DOMAIN pending :
          /\ pending[t].op = "check_cooldown"
          /\ pending[t].bucket_id = last.bucket_id /\ pending[t].ctx = last.ctx
    /\ cd_accepted[<<last.bucket_id, last.slot.k1>>].count
          = cd_buckets[last.bucket_id].make_resource.limit

\* C22 as stated: the counter of every state with a finite limit is the
\* number of entries of the ledger that record the state, also when
\* try_acquire calls for one (bucket_id, ctx) overlap, each suspended between
\* its test of the ledger and its acquire().
C22_CounterMatchesLedger ==
    \A o \in DOMAIN heap :
        heap[o].limit # -1 => heap[o].counter = Cardinality(Entries(o))

-----------------------------------------------------------------------------
(* Properties of the sweeps *)

Calls == {"check_cooldown", "increment_cooldown", "try_acquire", "release"}

\* the handlers of the manager never swept are those of the manager: from
\* the same state a call leaves both in the same state
UnsweptSameHandlers ==
    [][(/\ last'.op \in Calls
        /\ unswept.cd_buckets = cd_buckets /\ unswept.cc_buckets = cc_buckets
        /\ unswept.acquiring_ctxs = acquiring_ctxs /\ unswept.heap = heap) =>
           /\ unswept'.cd_buckets = cd_buckets' /\ unswept'.cc_buckets = cc_buckets'
           /\ unswept'.acquiring_ctxs = acquiring_ctxs' /\ unswept'.heap = heap'
           /\ unswept'.returned = Returned(last'.wait, last'.acquired, last'.raised)]_vars

\* C25: the sweeps cannot be observed: whatever the sequence of
\* check_cooldown, increment_cooldown, try_acquire and release calls and
\* their times, and wherever sweeps come between them, every call returns
\* (or raises) what it does in a manager that gets the same calls at the
\* same times and is never swept.
C25_SweepsUnobservable ==
    last.op \in Calls =>
        Returned(last.wait, last.acquired, last.raised) = unswept.returned

\* a check_cooldown(increment=True) has returned None on a state it had to
\* create, the one of its key having been swept, while the manager never
\* swept still had the state
C25_Witness ==
    /\ last.op = "check_cooldown" /\ last.increment /\ last.wait = None
    /\ last.before = <<>>
    /\ unswept.found
    /\ unswept.cd_buckets # cd_buckets

====
